---- MODULE Spec2Model ----
(***************************************************************************)
(* Model of server/zclient.go: the bridge between the BGP engine and the   *)
(* RIB daemon (zebra), its nexthop tracking manager and its translators.   *)
(*                                                                         *)
(* Four specifications share this module:                                  *)
(*   SpecDelay  calculateDelay as a pure function of (m.delay, penalty)    *)
(*   SpecXlate  the translators between route messages and paths           *)
(*   SpecNHT    the nexthop tracking manager's loop, its timers and stop() *)
(*   Spec       the bridge loop between the BGP engine and the RIB daemon  *)
(***************************************************************************)
EXTENDS Integers, Sequences, FiniteSets, TLC

VARIABLES
    dDelay,     \* SpecDelay: m.delay, the configured base delay
    dPenalty,   \* SpecDelay: the penalty handed to calculateDelay
    dResult,    \* SpecDelay: what calculateDelay returned (Unset before the call)
    xStage,     \* SpecXlate: "msg", "paths", "dropped" or "done"
    xMsg,       \* SpecXlate: the inbound route message (Nil when none)
    xDst,       \* SpecXlate: the path list handed to newIPRouteBody
    xSelf,      \* SpecXlate: selfRouteWithdraw
    xOut,       \* SpecXlate: what newIPRouteBody returned (Unset before the call)
    nhtPc,              \* NHT loop: "select" (at its select) or "done" (returned)
    penalty,            \* NHT loop: the local penalty
    isScheduled,        \* m.isScheduled
    scheduledPathList,  \* m.scheduledPathList: nexthop string -> pathList
    timers,             \* armed trigger timers that have not fired
    callbacks,          \* fired timer callbacks blocked in m.trigger <- struct{}{}
    timerDelay,         \* the delay of the timer armed last, in seconds
    stopPc,             \* stop(): the number of channels it has closed (0..3)
    panicked,           \* a goroutine sent on a closed channel
    updatePathArg,      \* the path list of the last UpdatePath call (Unset if none)
    ticks,              \* decay ticks so far (bounded by MaxTicks)
    window,             \* observer: per nexthop, the batches of the latest window
    arm,                \* observer: the arm of the select the latest step took
    updateErr,          \* whether the UpdatePath call of the latest step failed
    zNht,               \* Spec: z.nhtManager != nil
    useMultiplePaths,   \* Spec: table.UseMultiplePaths.Enabled
    globalVrfs,         \* Spec: the VRFs server.GetVrf() returns
    globalRib,          \* Spec: the paths the engine holds in its global RIB
    nexthopCache,       \* Spec: nhtManager.nexthopCache, the set of its keys
    watchCh,            \* Spec: the watcher events not yet received (w.Event())
    zebraCh,            \* Spec: the RIB daemon's messages not yet received
    handled,            \* Spec: the event or message the latest step received
    sent,               \* Spec: the messages the latest step sent to the RIB daemon
    submitted,          \* Spec: what the latest step sent on nhtManager.pathListCh
    zPc,                \* bridge loop: "run" (in its for loop) or "exited" (returned)
    zclient,            \* z.server.zclient != nil
    zebraClosed,        \* the RIB daemon's session is closed: Receive() yields nil
    watcherStopped,     \* the deferred w.Stop() has run
    nhtStopped,         \* the deferred z.nhtManager.stop() has run
    reconnectTasks,     \* the reconnect goroutines started so far
    reconnectPc,        \* reconnect(): "none", "sleep" or "done" (returned)
    sleepLeft,          \* reconnect(): the time units left of its time.Sleep
    failures            \* observer: failed StartZebraClient calls (up to MaxFailures)

delayVars == <<dDelay, dPenalty, dResult>>
xlateVars == <<xStage, xMsg, xDst, xSelf, xOut>>
nhtVars == <<nhtPc, penalty, isScheduled, scheduledPathList, timers, callbacks,
             timerDelay, stopPc, panicked, updatePathArg, ticks, window, arm,
             updateErr>>
connVars == <<zPc, zclient, zebraClosed, watcherStopped, nhtStopped,
              reconnectTasks, reconnectPc, sleepLeft, failures>>
bridgeVars == <<zNht, useMultiplePaths, globalVrfs, globalRib, nexthopCache,
                watchCh, zebraCh, handled, sent, submitted, connVars>>
vars == <<delayVars, xlateVars, nhtVars, bridgeVars>>

(***************************************************************************)
(* Bounds of the model.                                                    *)
(***************************************************************************)
MaxPenalty == 4000
MaxBatch == 2
MaxNhtPenalty == 1500
MaxTicks == 2
MaxTimers == 2
MaxRib == 2
MaxPending == 1
\* The observer of a window counts the batches per nexthop up to this.
MaxWindowCount == 3
\* The observer counts the failed attempts of reconnect() up to this.
MaxFailures == 2
\* The base delay the manager is configured with in SpecNHT.
NhtDelay == 1

(***************************************************************************)
(* Program constants.                                                      *)
(***************************************************************************)
PenaltyStep == 500
PenaltyThreshold == 950
DelayStep == 8
MaxNhtDelay == 255
\* The seconds reconnect() sleeps before every attempt.
RetryInterval == 3

\* The result slot of a call that has not been made.
Unset == <<>>
\* A nil pointer (a path, a message body).
Nil == [nil |-> TRUE]

(***************************************************************************)
(* Each specification leaves the variables of the others at rest.          *)
(***************************************************************************)
DelayIdle == dDelay = 0 /\ dPenalty = 0 /\ dResult = Unset

XlateIdle ==
    /\ xStage = "idle"
    /\ xMsg = Nil
    /\ xDst = <<>>
    /\ xSelf = FALSE
    /\ xOut = Unset

\* newNexthopTrackingManager (zclient.go:48-58) and the locals of loop()
\* (zclient.go:114-117): the state of a manager whose loop has just started.
NhtStart ==
    /\ nhtPc = "select"
    /\ penalty = 0
    /\ isScheduled = FALSE
    /\ scheduledPathList = <<>>
    /\ timers = 0
    /\ callbacks = 0
    /\ timerDelay = 0
    /\ stopPc = 0
    /\ panicked = FALSE
    /\ updatePathArg = Unset
    /\ ticks = 0
    /\ window = <<>>
    /\ arm = "none"
    /\ updateErr = FALSE

NhtIdle == NhtStart

\* The bridge loop has started on an open session (zclient.go:766-772).
ConnStart ==
    /\ zPc = "run"
    /\ zclient = TRUE
    /\ zebraClosed = FALSE
    /\ watcherStopped = FALSE
    /\ nhtStopped = FALSE
    /\ reconnectTasks = 0
    /\ reconnectPc = "none"
    /\ sleepLeft = 0
    /\ failures = 0

BridgeIdle ==
    /\ ConnStart
    /\ zNht = FALSE
    /\ useMultiplePaths = FALSE
    /\ globalVrfs = {}
    /\ globalRib = {}
    /\ nexthopCache = {}
    /\ watchCh = <<>>
    /\ zebraCh = <<>>
    /\ handled = Nil
    /\ sent = <<>>
    /\ submitted = {}


(***************************************************************************)
(* calculateDelay (zclient.go:96-107).                                     *)
(***************************************************************************)
RECURSIVE calculateDelayLoop(_, _)
calculateDelayLoop(delay, pen) ==
    IF pen > PenaltyThreshold
    THEN calculateDelayLoop(delay + DelayStep, pen \div 2)
    ELSE delay

calculateDelay_OffByOne(mdelay, pen) ==
    IF pen < PenaltyThreshold
    THEN mdelay
    ELSE calculateDelayLoop(DelayStep + DelayStep, pen \div 2)

calculateDelay(mdelay, pen) ==
    IF pen <= PenaltyThreshold
    THEN mdelay
    ELSE calculateDelayLoop(DelayStep, pen)

(***************************************************************************)
(* Strings.  A Go string is modelled as the sequence of its tokens, where  *)
(* the separators ":" and "/" are tokens of their own and every maximal    *)
(* run of other characters is one token, so that strings.Split and string  *)
(* equality are computed, not assumed.                                     *)
(***************************************************************************)
RECURSIVE Split(_, _)
Split(s, sep) ==
    IF \E i \in 1..Len(s) : s[i] = sep
    THEN LET i == CHOOSE k \in 1..Len(s) :
                      s[k] = sep /\ \A j \in 1..(k - 1) : s[j] # sep
         IN  <<SubSeq(s, 1, i - 1)>> \o Split(SubSeq(s, i + 1, Len(s)), sep)
    ELSE <<s>>

\* strings.SplitN(s, sep, 2)
SplitN2(s, sep) ==
    IF \E i \in 1..Len(s) : s[i] = sep
    THEN LET i == CHOOSE k \in 1..Len(s) :
                      s[k] = sep /\ \A j \in 1..(k - 1) : s[j] # sep
         IN  <<SubSeq(s, 1, i - 1), SubSeq(s, i + 1, Len(s))>>
    ELSE <<s>>

\* strconv.ParseUint(s, 10, 8), the error dropped: 0 when s is no number.
ParseUint8(s) ==
    IF Len(s) = 1 /\ \E n \in 0..255 : ToString(n) = s[1]
    THEN CHOOSE n \in 0..255 : ToString(n) = s[1]
    ELSE 0

(***************************************************************************)
(* net.IP: an address and the length of the byte slice holding it (4 or    *)
(* 16; 0 for a nil or empty slice).                                        *)
(***************************************************************************)
V4Addrs == {"0.0.0.0", "10.0.0.0", "10.0.1.0", "127.0.0.1", "192.0.2.1", "192.0.2.2"}
V6Addrs == {"::", "::1", "2001:db8::", "2001:db8::1"}
Addrs == V4Addrs \cup V6Addrs

AddrTokens(a) ==
    CASE a = "::"          -> <<":", ":">>
      [] a = "::1"         -> <<":", ":", "1">>
      [] a = "2001:db8::"  -> <<"2001", ":", "db8", ":", ":">>
      [] a = "2001:db8::1" -> <<"2001", ":", "db8", ":", ":", "1">>
      [] OTHER             -> <<a>>

NilIP == [a |-> "<nil>", n |-> 0]
IP4(a) == [a |-> a, n |-> 4]
IP16(a) == [a |-> a, n |-> 16]

\* net.IP.String
IPString(ip) == IF ip.n = 0 THEN <<"<nil>">> ELSE AddrTokens(ip.a)

\* net.ParseIP: always the 16-byte form, nil when the text is no address.
ParseIP(s) ==
    IF \E a \in Addrs : AddrTokens(a) = s
    THEN IP16(CHOOSE a \in Addrs : AddrTokens(a) = s)
    ELSE NilIP

\* net.IP.To4: nil unless the address is an IPv4 address.
To4(ip) ==
    IF ip.n # 0 /\ ip.a \in V4Addrs THEN IP4(ip.a) ELSE NilIP

\* net.IP.To16
To16(ip) ==
    IF ip.n = 0 THEN NilIP ELSE IP16(ip.a)

\* net.IP.IsUnspecified
IsUnspecified(ip) == ip.n # 0 /\ ip.a \in {"0.0.0.0", "::"}

\* net.IP.Equal
IPEqual(x, y) == x.n # 0 /\ y.n # 0 /\ x.a = y.a

(***************************************************************************)
(* Paths (table.Path) as the bridge observes them.                         *)
(***************************************************************************)
V4Families == {"RF_IPv4_UC", "RF_IPv4_VPN"}
V6Families == {"RF_IPv6_UC", "RF_IPv6_VPN"}
VpnFamilies == {"RF_IPv4_VPN", "RF_IPv6_VPN"}

NoRD == <<>>
RD100 == <<"100", ":", "1">>
RD200 == <<"200", ":", "1">>

\* bgp.AddrPrefixInterface.String: "prefix/len", "rd:prefix/len" for the
\* labeled-VPN families, and a text without "/" for any other family.
NlriString(path) ==
    LET n == path.nlri
        plain == IPString(n.prefix) \o <<"/", ToString(n.length)>>
    IN  IF path.family \in VpnFamilies
        THEN n.rd \o <<":">> \o plain
        ELSE IF path.family \in {"RF_IPv4_UC", "RF_IPv6_UC"}
        THEN plain
        ELSE <<"[type", ":", "macadv]">>

GetNexthop(path) == path.nexthop
IsFromExternal(path) == path.fromExternal
\* table.Path.IsLocal: the source has no peer address.
IsLocal(path) == path.source.Address = "none"

EbgpInfo  == [AS |-> 65001, LocalAS |-> 65000, MultihopTtl |-> 0, Address |-> "peer1"]
IbgpInfo  == [AS |-> 65000, LocalAS |-> 65000, MultihopTtl |-> 0, Address |-> "peer2"]
MhopInfo  == [AS |-> 65002, LocalAS |-> 65000, MultihopTtl |-> 2, Address |-> "peer3"]
LocalInfo == [AS |-> 65000, LocalAS |-> 65000, MultihopTtl |-> 0, Address |-> "none"]

MkNlri(rd, prefix, length, localId) ==
    [rd |-> rd, prefix |-> prefix, length |-> length, localId |-> localId]

MkPath(id, family, nlri, nexthop, source) ==
    [id |-> id, family |-> family, nlri |-> nlri, nexthop |-> nexthop,
     IsWithdraw |-> FALSE, IsNexthopInvalid |-> FALSE, med |-> <<>>,
     fromExternal |-> FALSE, source |-> source,
     communities |-> {}, asPathLen |-> 0, aspath |-> <<>>]

(***************************************************************************)
(* filterOutExternalPath (zclient.go:217-226).                             *)
(***************************************************************************)
filterOutExternalPath_KeepAll(paths) ==
    SelectSeq(paths, LAMBDA path : path # Nil)

filterOutExternalPath(paths) ==
    SelectSeq(paths, LAMBDA path : ~(path = Nil \/ IsFromExternal(path)))

(***************************************************************************)
(* newIPRouteBody (zclient.go:228-329).                                    *)
(***************************************************************************)
Loopback4 == <<"127.0.0.1">>
Loopback6 == <<":", ":", "1">>

\* The nexthop loops of the two family arms (zclient.go:245-255, 262-272).
RouteNexthops_IgnoreSelf(paths, selfRouteWithdraw, v4) ==
    LET nhop(p) == IF v4 THEN To4(GetNexthop(p)) ELSE To16(GetNexthop(p))
        all == [i \in 1..Len(paths) |-> nhop(paths[i])]
    IN  SelectSeq(all, LAMBDA ip : ip # NilIP)

RouteNexthops(paths, selfRouteWithdraw, v4) ==
    LET nhop(p) ==
            IF v4
            THEN IF selfRouteWithdraw
                 THEN To4(ParseIP(Loopback4))
                 ELSE To4(GetNexthop(p))
            ELSE IF selfRouteWithdraw
                 THEN To16(ParseIP(Loopback6))
                 ELSE To16(GetNexthop(p))
        all == [i \in 1..Len(paths) |-> nhop(paths[i])]
    IN  SelectSeq(all, LAMBDA ip : ip # NilIP)

\* The route flags (zclient.go:285-296).
RouteFlags(path) ==
    LET info == path.source
        base == IF info.AS = info.LocalAS
                THEN {"FLAG_IBGP", "FLAG_INTERNAL"}
                ELSE IF info.MultihopTtl > 0
                THEN {"FLAG_INTERNAL"}
                ELSE {}
    IN  base \cup (IF "COMMUNITY_REGION_BACKUP" \in path.communities
                   THEN {"FLAG_REJECT"} ELSE {})

\* The serialized AS path without its 3-byte envelope (zclient.go:297-307).
RouteAux(path) ==
    IF path.asPathLen > 0
    THEN IF Len(path.aspath) > 3
         THEN SubSeq(path.aspath, 4, Len(path.aspath))
         ELSE path.aspath
    ELSE <<>>

NoRoute == [body |-> Nil, isWithdraw |-> FALSE]

newIPRouteBody(dst, selfRouteWithdraw) ==
    LET paths == filterOutExternalPath(dst)
        path == paths[1]
        l == SplitN2(NlriString(path), "/")
        v4 == path.family \in V4Families
        prefix == IF v4 THEN To4(path.nlri.prefix) ELSE To16(path.nlri.prefix)
        nexthops == RouteNexthops(paths, selfRouteWithdraw, v4)
        plen == ParseUint8(l[2])
        pathId == path.nlri.localId
        msgFlags ==
            (IF Len(nexthops) > 0 THEN {"MESSAGE_NEXTHOP"} ELSE {})
            \cup (IF path.med # <<>> THEN {"MESSAGE_METRIC"} ELSE {})
            \cup (IF path.asPathLen > 0 /\ Len(path.aspath) > 3
                  THEN {"MESSAGE_ASPATH"} ELSE {})
            \cup (IF plen = 0 THEN {"MESSAGE_PATH_ID"} ELSE {})
    IN  IF Len(paths) = 0
        THEN NoRoute
        ELSE IF path.family \notin (V4Families \cup V6Families)
        THEN NoRoute
        ELSE IF plen = 0 /\ pathId = 0
        THEN NoRoute
        ELSE [body |-> [Type |-> "ROUTE_BGP",
                        Flags |-> RouteFlags(path),
                        SAFI |-> "SAFI_UNICAST",
                        Message |-> msgFlags,
                        Prefix |-> prefix,
                        PrefixLength |-> plen,
                        Nexthops |-> nexthops,
                        Metric |-> IF path.med # <<>> THEN path.med[1] ELSE 0,
                        Aux |-> RouteAux(path),
                        PathId |-> IF plen = 0 THEN pathId ELSE 0],
              isWithdraw |-> path.IsWithdraw]

(***************************************************************************)
(* createPathFromIPRouteMessage (zclient.go:383-435).  A message is        *)
(* [Header |-> [Command, VrfId], Body |-> IPRouteBody].                    *)
(***************************************************************************)
\* zebra.IPRouteBody.RouteFamily and IsWithdraw, from the command.
BodyRouteFamily(body) ==
    CASE body.Api \in {"IPV4_ROUTE_ADD", "IPV4_ROUTE_DELETE"} -> "RF_IPv4_UC"
      [] body.Api \in {"IPV6_ROUTE_ADD", "IPV6_ROUTE_DELETE"} -> "RF_IPv6_UC"
      [] OTHER -> "RF_OPAQUE"

BodyIsWithdraw(body) == body.Api \in {"IPV4_ROUTE_DELETE", "IPV6_ROUTE_DELETE"}

\* The nexthop attribute of the created path (zclient.go:412-421).
IngressNexthop_Last(body, family) ==
    IF Len(body.Nexthops) = 0
    THEN NilIP
    ELSE IF family = "RF_IPv4_UC"
    THEN To4(ParseIP(IPString(body.Nexthops[Len(body.Nexthops)])))
    ELSE ParseIP(IPString(body.Nexthops[Len(body.Nexthops)]))

IngressNexthop(body, family) ==
    IF Len(body.Nexthops) = 0
    THEN NilIP
    ELSE IF family = "RF_IPv4_UC"
    THEN To4(ParseIP(IPString(body.Nexthops[1])))
    ELSE ParseIP(IPString(body.Nexthops[1]))

createPathFromIPRouteMessage(m) ==
    LET body == m.Body
        family == BodyRouteFamily(body)
        isWithdraw == BodyIsWithdraw(body)
        nlri == IF family = "RF_IPv4_UC"
                THEN MkNlri(NoRD, To4(ParseIP(IPString(body.Prefix))),
                            body.PrefixLength, 0)
                ELSE MkNlri(NoRD, ParseIP(IPString(body.Prefix)),
                            body.PrefixLength, 0)
    IN  IF family \notin {"RF_IPv4_UC", "RF_IPv6_UC"}
        THEN Nil
        ELSE [id |-> 0, family |-> family, nlri |-> nlri,
              nexthop |-> IngressNexthop(body, family),
              IsWithdraw |-> isWithdraw, IsNexthopInvalid |-> FALSE,
              med |-> <<body.Metric>>,
              fromExternal |-> TRUE, source |-> Nil,
              communities |-> {}, asPathLen |-> 0, aspath |-> <<>>]

(***************************************************************************)
(* The paths and the inbound route messages the model draws from.          *)
(***************************************************************************)
Nlri10_0 == MkNlri(NoRD, IP4("10.0.0.0"), 24, 0)
Nlri10_1 == MkNlri(NoRD, IP4("10.0.1.0"), 24, 0)

\* S1: 10.0.0.0/24 via 192.0.2.1 from an eBGP peer.
PathA == MkPath(1, "RF_IPv4_UC", Nlri10_0, IP4("192.0.2.1"), EbgpInfo)
\* The same prefix and nexthop from an iBGP peer (a multi-path sibling).
PathB == [MkPath(2, "RF_IPv4_UC", Nlri10_0, IP4("192.0.2.1"), IbgpInfo)
             EXCEPT !.med = <<10>>]
\* Another prefix via 192.0.2.2, with the backup community and an AS path.
PathC == [MkPath(3, "RF_IPv4_UC", Nlri10_1, IP4("192.0.2.2"), MhopInfo)
             EXCEPT !.communities = {"COMMUNITY_REGION_BACKUP"},
                    !.asPathLen = 1, !.aspath = <<64, 2, 6, 2, 1, 65002>>]
\* The IPv4 default route, with and without a path-local identifier.
PathDefault == MkPath(4, "RF_IPv4_UC", MkNlri(NoRD, IP4("0.0.0.0"), 0, 1),
                      IP4("192.0.2.2"), EbgpInfo)
PathDefaultNoId == MkPath(5, "RF_IPv4_UC", MkNlri(NoRD, IP4("0.0.0.0"), 0, 0),
                          IP4("192.0.2.2"), EbgpInfo)
\* The IPv4-VPN default route of RD 100:1.
PathVpn4Default ==
    [MkPath(6, "RF_IPv4_VPN", MkNlri(RD100, IP4("0.0.0.0"), 0, 1),
            IP4("192.0.2.2"), EbgpInfo)
        EXCEPT !.communities = {"RT:100:1"}]
\* S5: RD 100:1, 2001:db8::/64.
PathVpn6 ==
    [MkPath(7, "RF_IPv6_VPN", MkNlri(RD100, IP16("2001:db8::"), 64, 0),
            IP16("2001:db8::1"), EbgpInfo)
        EXCEPT !.communities = {"RT:100:1"}]
PathV6 == MkPath(8, "RF_IPv6_UC", MkNlri(NoRD, IP16("2001:db8::"), 64, 0),
                 IP16("2001:db8::1"), EbgpInfo)
\* Locally originated paths: with an unspecified and with a specified nexthop.
PathLocal == MkPath(9, "RF_IPv4_UC", Nlri10_1, IP4("0.0.0.0"), LocalInfo)
PathLocalNh == MkPath(10, "RF_IPv4_UC", Nlri10_1, IP4("192.0.2.2"), LocalInfo)
\* A family the translators do not handle.
PathEvpn == MkPath(11, "RF_EVPN", MkNlri(NoRD, NilIP, 0, 0),
                   IP4("192.0.2.1"), EbgpInfo)

Withdrawn(path) == [path EXCEPT !.IsWithdraw = TRUE]

MkRouteMsg(api, prefix, length, nexthops, metric) ==
    [Header |-> [Command |-> api, VrfId |-> 0],
     Body |-> [Api |-> api, Prefix |-> prefix, PrefixLength |-> length,
               Nexthops |-> nexthops, Metric |-> metric]]

SeqsUpTo(S, n) == UNION {[1..k -> S] : k \in 0..n}

\* Route messages of the RIB daemon: the prefix and the nexthops are of the
\* command's address family.
InboundRouteMsgs ==
    {MkRouteMsg(api, pl[1], pl[2], nhs, metric) :
        api \in {"IPV4_ROUTE_ADD", "IPV4_ROUTE_DELETE", "IPV4_NEXTHOP_LOOKUP"},
        pl \in {<<IP4("10.0.1.0"), 24>>, <<IP4("0.0.0.0"), 0>>},
        nhs \in SeqsUpTo({IP4("192.0.2.1"), IP4("192.0.2.2")}, 2),
        metric \in {0, 20}}
    \cup
    {MkRouteMsg(api, IP16("2001:db8::"), 64, nhs, metric) :
        api \in {"IPV6_ROUTE_ADD", "IPV6_ROUTE_DELETE"},
        nhs \in SeqsUpTo({IP16("2001:db8::1"), IP16("::1")}, 2),
        metric \in {0, 20}}

\* server.AddPath gives a path without a source the local peer info.
FixupApiPath(path) ==
    IF path.source = Nil THEN [path EXCEPT !.source = LocalInfo] ELSE path

\* A path the bridge imported from the RIB daemon, as the engine holds it.
PathExternal ==
    [FixupApiPath(createPathFromIPRouteMessage(
        MkRouteMsg("IPV4_ROUTE_ADD", IP4("10.0.1.0"), 24, <<IP4("192.0.2.1")>>, 20)))
        EXCEPT !.id = 12]

XlatePool ==
    LET base == {PathA, PathB, PathC, PathDefault, PathDefaultNoId,
                 PathVpn4Default, PathVpn6, PathV6, PathLocal, PathLocalNh,
                 PathEvpn, PathExternal}
    IN  base \cup {Withdrawn(p) : p \in base}

(***************************************************************************)
(* SpecXlate: the translators applied to every inbound route message and   *)
(* to every path list of up to MaxBatch paths.                             *)
(***************************************************************************)
InitXlate ==
    /\ \/ /\ xStage = "msg"
          /\ xMsg \in InboundRouteMsgs
          /\ xDst = <<>>
       \/ /\ xStage = "paths"
          /\ xMsg = Nil
          /\ xDst \in SeqsUpTo(XlatePool, MaxBatch)
    /\ xSelf \in BOOLEAN
    /\ xOut = Unset
    /\ DelayIdle
    /\ NhtIdle
    /\ BridgeIdle

\* Ingress: the IPRouteBody arm of the bridge loop up to the created path
\* (zclient.go:596-597).
XlateIngress ==
    /\ xStage = "msg"
    /\ LET p == createPathFromIPRouteMessage(xMsg)
       IN  IF p = Nil
           THEN xStage' = "dropped" /\ xDst' = <<>>
           ELSE xStage' = "paths" /\ xDst' = <<p>>
    /\ UNCHANGED <<xMsg, xSelf, xOut, delayVars, nhtVars, bridgeVars>>

\* Egress: a call of newIPRouteBody (zclient.go:631, 658, 714).
XlateEgress ==
    /\ xStage = "paths"
    /\ xOut' = <<newIPRouteBody(xDst, xSelf)>>
    /\ xStage' = "done"
    /\ UNCHANGED <<xMsg, xDst, xSelf, delayVars, nhtVars, bridgeVars>>

NextXlate == XlateIngress \/ XlateEgress

SpecXlate == InitXlate /\ [][NextXlate]_vars

(***************************************************************************)
(* The nexthop tracking manager (zclient.go:37-190).                       *)
(***************************************************************************)
\* The clones createPathListFromNexthopUpdateMessage makes of a path.
Invalidated(path) == [path EXCEPT !.IsNexthopInvalid = TRUE]
Revalidated(path, metric) ==
    [path EXCEPT !.IsNexthopInvalid = FALSE, !.med = <<metric>>]

\* The batches the bridge submits in SpecNHT: the clones of the paths bound
\* to one nexthop (192.0.2.1 or 192.0.2.2).
NhtBatches ==
    {<<Invalidated(PathA)>>,
     <<Invalidated(PathA), Invalidated(PathB)>>,
     <<Revalidated(PathA, 20), Revalidated(PathB, 20)>>,
     <<Invalidated(PathC)>>}

\* scheduleUpdate, were an empty list sent as well.
scheduleUpdate_SendEmpty(paths) == {paths}

\* scheduleUpdate (zclient.go:185-190): the values it sends on pathListCh
\* (none for an empty list).
scheduleUpdate(paths) ==
    IF Len(paths) = 0 THEN {} ELSE {paths}

\* appendPathList (zclient.go:87-94), as a function of the map.
MapPut(m, key, val) ==
    [k \in (DOMAIN m) \cup {key} |-> IF k = key THEN val ELSE m[k]]

appendPathList_KeepFirst(m, paths) ==
    IF Len(paths) = 0
    THEN m
    ELSE LET key == IPString(GetNexthop(paths[1]))
         IN  IF key \in DOMAIN m THEN m ELSE MapPut(m, key, paths)

appendPathList(m, paths) ==
    IF Len(paths) = 0
    THEN m
    ELSE MapPut(m, IPString(GetNexthop(paths[1])), paths)

\* The orders in which a range over a Go map may visit its keys.
Orders(S) ==
    {o \in [1..Cardinality(S) -> S] : \A i, j \in DOMAIN o : o[i] = o[j] => i = j}

RECURSIVE FlattenIn(_, _)
FlattenIn(m, order) ==
    IF order = <<>>
    THEN <<>>
    ELSE m[Head(order)] \o FlattenIn(m, Tail(order))

\* The path lists the trigger arm may build (zclient.go:161-166).
TriggerPathLists(m) == {FlattenIn(m, o) : o \in Orders(DOMAIN m)}

\* A receive on m.pathListCh: a batch a scheduleUpdate call is sending, or
\* the zero value once stop() has closed the channel.
PathListChOffers ==
    IF stopPc >= 1
    THEN {<<>>}
    ELSE UNION {scheduleUpdate(b) : b \in NhtBatches \cup {<<>>}}

\* Observer of the batches of the latest window, per nexthop: the latest
\* batch and how many were submitted (counted up to MaxWindowCount).  A window
\* opens when a timer is armed.
WindowAfter(w, paths, opens) ==
    LET base == IF opens THEN <<>> ELSE w
        key == IPString(GetNexthop(paths[1]))
        n == IF key \in DOMAIN base THEN base[key].count ELSE 0
    IN  IF Len(paths) = 0
        THEN base
        ELSE MapPut(base, key,
                    [latest |-> paths,
                     count |-> IF n < MaxWindowCount THEN n + 1 ELSE n])

\* case paths := <-m.pathListCh (zclient.go:127-158)
LoopBatch ==
    /\ nhtPc = "select"
    /\ ~panicked
    /\ penalty + PenaltyStep <= MaxNhtPenalty
    /\ \E paths \in PathListChOffers :
          /\ penalty' = penalty + PenaltyStep
          /\ scheduledPathList' = appendPathList(scheduledPathList, paths)
          /\ window' = WindowAfter(window, paths, ~isScheduled)
          /\ IF isScheduled
             THEN UNCHANGED <<isScheduled, timers, timerDelay>>
             ELSE /\ timers + callbacks < MaxTimers
                  /\ isScheduled' = TRUE
                  /\ timerDelay' = calculateDelay(NhtDelay, penalty')
                  /\ timers' = timers + 1
    /\ arm' = "batch"
    /\ updateErr' = FALSE
    /\ UNCHANGED <<nhtPc, callbacks, stopPc, panicked, updatePathArg, ticks,
                   delayVars, xlateVars,
                   bridgeVars>>

\* case <-t.C (zclient.go:124-125)
LoopTick ==
    /\ nhtPc = "select"
    /\ ~panicked
    /\ ticks < MaxTicks
    /\ ticks' = ticks + 1
    /\ penalty' = penalty \div 2
    /\ arm' = "tick"
    /\ updateErr' = FALSE
    /\ UNCHANGED <<nhtPc, isScheduled, scheduledPathList, timers, callbacks,
                   timerDelay, stopPc, panicked, updatePathArg, window,
                   delayVars, xlateVars,
                   bridgeVars>>

\* case <-m.trigger, were m.isScheduled left set.
LoopTrigger_KeepScheduled ==
    /\ nhtPc = "select"
    /\ ~panicked
    /\ IF stopPc >= 2
       THEN UNCHANGED callbacks
       ELSE callbacks > 0 /\ callbacks' = callbacks - 1
    /\ \E paths \in TriggerPathLists(scheduledPathList), err \in BOOLEAN :
          /\ updatePathArg' = <<paths>>
          /\ updateErr' = err
    /\ arm' = "trigger"
    /\ scheduledPathList' = <<>>
    /\ UNCHANGED <<nhtPc, penalty, isScheduled, timers, timerDelay, stopPc,
                   panicked, ticks, window, delayVars, xlateVars,
                   bridgeVars>>

\* case <-m.trigger, were the map flushed only when UpdatePath succeeds.
LoopTrigger_KeepOnError ==
    /\ nhtPc = "select"
    /\ ~panicked
    /\ IF stopPc >= 2
       THEN UNCHANGED callbacks
       ELSE callbacks > 0 /\ callbacks' = callbacks - 1
    /\ \E paths \in TriggerPathLists(scheduledPathList), err \in BOOLEAN :
          /\ updatePathArg' = <<paths>>
          /\ updateErr' = err
          /\ IF err
             THEN UNCHANGED <<isScheduled, scheduledPathList>>
             ELSE isScheduled' = FALSE /\ scheduledPathList' = <<>>
    /\ arm' = "trigger"
    /\ UNCHANGED <<nhtPc, penalty, timers, timerDelay, stopPc, panicked, ticks,
                   window, delayVars, xlateVars,
                   bridgeVars>>

\* case <-m.trigger (zclient.go:160-180): the receive pairs with a blocked
\* timer callback, or yields the zero value once stop() has closed the channel.
\* UpdatePath's error is only logged.
LoopTrigger ==
    /\ nhtPc = "select"
    /\ ~panicked
    /\ IF stopPc >= 2
       THEN UNCHANGED callbacks
       ELSE callbacks > 0 /\ callbacks' = callbacks - 1
    /\ \E paths \in TriggerPathLists(scheduledPathList), err \in BOOLEAN :
          /\ updatePathArg' = <<paths>>
          /\ updateErr' = err
    /\ arm' = "trigger"
    /\ isScheduled' = FALSE
    /\ scheduledPathList' = <<>>
    /\ UNCHANGED <<nhtPc, penalty, timers, timerDelay, stopPc, panicked, ticks,
                   window, delayVars, xlateVars,
                   bridgeVars>>

\* case <-m.dead (zclient.go:121-122): return; the deferred triggerTimer.Stop()
\* of every armed timer and t.Stop() run (zclient.go:115, 150-153).
LoopDead ==
    /\ nhtPc = "select"
    /\ ~panicked
    /\ stopPc = 3
    /\ nhtPc' = "done"
    /\ timers' = 0
    /\ arm' = "dead"
    /\ updateErr' = FALSE
    /\ UNCHANGED <<penalty, isScheduled, scheduledPathList, callbacks,
                   timerDelay, stopPc, panicked, updatePathArg, ticks, window,
                   delayVars, xlateVars,
                   bridgeVars>>

\* An armed timer fires: triggerUpdatePathAfter (zclient.go:109-111) runs in
\* its own goroutine and sends on m.trigger; sending on a closed channel
\* panics.
TimerFire ==
    /\ ~panicked
    /\ timers > 0
    /\ timers' = timers - 1
    /\ IF stopPc >= 2
       THEN panicked' = TRUE /\ UNCHANGED callbacks
       ELSE callbacks' = callbacks + 1 /\ UNCHANGED panicked
    /\ arm' = "none"
    /\ updateErr' = FALSE
    /\ UNCHANGED <<nhtPc, penalty, isScheduled, scheduledPathList, timerDelay,
                   stopPc, updatePathArg, ticks, window, delayVars, xlateVars,
                   bridgeVars>>

\* stop() (zclient.go:60-65), one close per step: pathListCh, trigger, dead.
\* Closing m.trigger panics every callback blocked in its send.
StopStep ==
    /\ ~panicked
    /\ stopPc < 3
    /\ stopPc' = stopPc + 1
    /\ panicked' = (stopPc = 1 /\ callbacks > 0)
    /\ arm' = "none"
    /\ updateErr' = FALSE
    /\ UNCHANGED <<nhtPc, penalty, isScheduled, scheduledPathList, timers,
                   callbacks, timerDelay, updatePathArg, ticks, window,
                   delayVars, xlateVars,
                   bridgeVars>>

InitNHT == NhtStart /\ DelayIdle /\ XlateIdle /\ BridgeIdle

NextNHT ==
    \/ LoopBatch
    \/ LoopTick
    \/ LoopTrigger
    \/ LoopDead
    \/ TimerFire
    \/ StopStep

SpecNHT == InitNHT /\ [][NextNHT]_vars

(***************************************************************************)
(* SpecNHTLive: the two arms of the running loop that write the penalty,   *)
(* with a decay ticker that never runs out.  The ticker (zclient.go:114)   *)
(* delivers a tick every 8 seconds for as long as the loop runs and select *)
(* takes a ready arm, so the tick arm is weakly fair.  The penalty stays   *)
(* bounded by the guard of the batch arm.                                  *)
(***************************************************************************)
\* case <-t.C, were the halving rounded up.
LoopDecay_RoundUp ==
    /\ nhtPc = "select"
    /\ ~panicked
    /\ penalty' = (penalty + 1) \div 2
    /\ arm' = "tick"
    /\ updateErr' = FALSE
    /\ UNCHANGED <<nhtPc, isScheduled, scheduledPathList, timers, callbacks,
                   timerDelay, stopPc, panicked, updatePathArg, ticks, window,
                   delayVars, xlateVars,
                   bridgeVars>>

\* case <-t.C (zclient.go:124-125), ticks not counted.
LoopDecay ==
    /\ nhtPc = "select"
    /\ ~panicked
    /\ penalty' = penalty \div 2
    /\ arm' = "tick"
    /\ updateErr' = FALSE
    /\ UNCHANGED <<nhtPc, isScheduled, scheduledPathList, timers, callbacks,
                   timerDelay, stopPc, panicked, updatePathArg, ticks, window,
                   delayVars, xlateVars,
                   bridgeVars>>

NextNHTLive ==
    \/ LoopBatch
    \/ LoopDecay

SpecNHTLive == InitNHT /\ [][NextNHTLive]_vars /\ WF_vars(LoopDecay)

(***************************************************************************)
(* SpecNHTFlush: the running loop without stop().  A timer armed with      *)
(* time.AfterFunc (zclient.go:149) fires after its delay, and its callback *)
(* stays blocked in its send on m.trigger (zclient.go:110) until the loop  *)
(* receives; select takes one of the ready arms at random, so an arm that  *)
(* stays ready is taken.  Both are weakly fair.                            *)
(***************************************************************************)
NextNHTFlush ==
    \/ LoopBatch
    \/ LoopTick
    \/ LoopTrigger
    \/ TimerFire

SpecNHTFlush ==
    /\ InitNHT
    /\ [][NextNHTFlush]_vars
    /\ WF_vars(TimerFire)
    /\ WF_vars(LoopTrigger)

(***************************************************************************)
(* The nexthop cache (zclient.go:67-85).  The cache is a set of strings.   *)
(***************************************************************************)
isRegisteredNexthop(cache, nexthop) == IPString(nexthop) \in cache

\* registerNexthop: whether the key was added, and the cache afterwards.
registerNexthop(cache, nexthop) ==
    LET key == IPString(nexthop)
    IN  IF key \in cache
        THEN [ok |-> FALSE, cache |-> cache]
        ELSE [ok |-> TRUE, cache |-> cache \cup {key}]

unregisterNexthop_Keep(cache, nexthop) == cache

unregisterNexthop(cache, nexthop) == cache \ {IPString(nexthop)}

(***************************************************************************)
(* filterPathToRegister (zclient.go:192-215).                              *)
(***************************************************************************)
filterPathToRegister(cache, paths) ==
    SelectSeq(paths, LAMBDA path :
        /\ ~(path = Nil \/ IsFromExternal(path))
        /\ ~(path.IsWithdraw \/ path.IsNexthopInvalid)
        /\ ~(isRegisteredNexthop(cache, GetNexthop(path))
             \/ IsUnspecified(GetNexthop(path))))

(***************************************************************************)
(* newNexthopRegisterBody (zclient.go:331-381): the body, is-withdraw and  *)
(* the cache after the registerNexthop calls.  nht is z.nhtManager != nil. *)
(***************************************************************************)
\* One entry of the body for a nexthop (zclient.go:354-367).
RegisteredNexthop(family, nexthop) ==
    IF family \in V4Families
    THEN [Family |-> "AF_INET", Prefix |-> To4(nexthop)]
    ELSE [Family |-> "AF_INET6", Prefix |-> To16(nexthop)]

\* The loop over the filtered paths (zclient.go:351-370).
RECURSIVE RegisterLoop(_, _, _, _)
RegisterLoop(paths, family, cache, nexthops) ==
    IF paths = <<>>
    THEN [nexthops |-> nexthops, cache |-> cache]
    ELSE IF family \notin (V4Families \cup V6Families)
    THEN RegisterLoop(Tail(paths), family, cache, nexthops)
    ELSE LET nexthop == GetNexthop(Head(paths))
         IN  RegisterLoop(Tail(paths), family,
                          registerNexthop(cache, nexthop).cache,
                          Append(nexthops, RegisteredNexthop(family, nexthop)))

newNexthopRegisterBody(dst, cache, nht) ==
    LET paths == filterPathToRegister(cache, dst)
        path == paths[1]
        r == RegisterLoop(paths, path.family, cache, <<>>)
    IN  IF ~nht
        THEN [body |-> Nil, isWithdraw |-> FALSE, cache |-> cache]
        ELSE IF Len(paths) = 0
        THEN [body |-> Nil, isWithdraw |-> FALSE, cache |-> cache]
        ELSE IF path.IsWithdraw
        THEN [body |-> Nil, isWithdraw |-> TRUE, cache |-> cache]
        ELSE IF Len(r.nexthops) = 0
        THEN [body |-> Nil, isWithdraw |-> path.IsWithdraw, cache |-> r.cache]
        ELSE [body |-> [Nexthops |-> r.nexthops],
              isWithdraw |-> path.IsWithdraw, cache |-> r.cache]

(***************************************************************************)
(* createPathListFromNexthopUpdateMessage (zclient.go:437-482).            *)
(***************************************************************************)
rfListFromNexthopUpdateBody(body) ==
    CASE body.Family = "AF_INET"  -> <<"RF_IPv4_UC", "RF_IPv4_VPN">>
      [] body.Family = "AF_INET6" -> <<"RF_IPv6_UC", "RF_IPv6_VPN">>
      [] OTHER -> <<>>

Range(f) == {f[i] : i \in DOMAIN f}

\* table.Path.Clone: a copy the bridge may change without touching the
\* path it was cloned from.
Clone(path) == path

\* table.TableManager.GetPathListWithNexthop over the tables of rfList: the
\* known paths whose nexthop equals the given one, in any order.
GetPathListWithNexthop(tables, rfList, nexthop) ==
    LET bound == {path \in tables :
                     /\ path.family \in Range(rfList)
                     /\ IPEqual(GetNexthop(path), nexthop)}
    IN  Orders(bound)

\* What the update does to one clone (zclient.go:467-478).
ApplyNexthopUpdate(newPath, body) ==
    IF Len(body.Nexthops) = 0
    THEN [newPath EXCEPT !.IsNexthopInvalid = TRUE]
    ELSE [newPath EXCEPT !.IsNexthopInvalid = FALSE, !.med = <<body.Metric>>]

\* For the bound paths in the order the table gave them: the updated clones,
\* the unregister body (Nil if paths are bound), the cache afterwards, and
\* the bound paths as the tables hold them afterwards (only the clones are
\* written to).
createPathListFromNexthopUpdateMessage_NoClone(body, paths, cache) ==
    [boundPaths |-> {ApplyNexthopUpdate(path, body) : path \in Range(paths)},
     updatedPathList |->
         [i \in 1..Len(paths) |-> ApplyNexthopUpdate(paths[i], body)],
     nexthopUnregisterBody |->
         IF Len(paths) = 0
         THEN [Nexthops |-> <<[Family |-> body.Family, Prefix |-> body.Prefix]>>]
         ELSE Nil,
     cache |->
         IF Len(paths) = 0 THEN unregisterNexthop(cache, body.Prefix) ELSE cache]

createPathListFromNexthopUpdateMessage(body, paths, cache) ==
    [boundPaths |-> Range(paths),
     updatedPathList |->
         [i \in 1..Len(paths) |-> ApplyNexthopUpdate(Clone(paths[i]), body)],
     nexthopUnregisterBody |->
         IF Len(paths) = 0
         THEN [Nexthops |-> <<[Family |-> body.Family, Prefix |-> body.Prefix]>>]
         ELSE Nil,
     cache |->
         IF Len(paths) = 0 THEN unregisterNexthop(cache, body.Prefix) ELSE cache]

(***************************************************************************)
(* NlriPrefix and NlriRD (zclient.go:537-548).                             *)
(***************************************************************************)
NlriPrefix(str) ==
    LET nlri == Split(str, ":")
    IN  nlri[Len(nlri)]

NlriRD(str) ==
    LET nlri == Split(str, ":")
    IN  IF Len(nlri) > 1
        THEN nlri[1] \o <<":">> \o nlri[2]
        ELSE <<>>

DefaultRouteText == <<"0.0.0.0", "/", "0">>

(***************************************************************************)
(* The sends of the bridge loop.  A sent message is                        *)
(* [Command, VrfId, Body].                                                 *)
(***************************************************************************)
\* zebra.Client.SendIPRoute: the command follows the prefix's address family
\* and isWithdraw.
SendIPRoute(vrfId, body, isWithdraw) ==
    [Command |-> IF To4(body.Prefix) # NilIP
                 THEN IF isWithdraw THEN "IPV4_ROUTE_DELETE" ELSE "IPV4_ROUTE_ADD"
                 ELSE IF isWithdraw THEN "IPV6_ROUTE_DELETE" ELSE "IPV6_ROUTE_ADD",
     VrfId |-> vrfId,
     Body |-> body]

\* zebra.Client.SendNexthopRegister
SendNexthopRegister(vrfId, body, isWithdraw) ==
    [Command |-> IF isWithdraw THEN "NEXTHOP_UNREGISTER" ELSE "NEXTHOP_REGISTER",
     VrfId |-> vrfId,
     Body |-> body]

\* The two sends, were the register message sent before the route message.
SendRouteAndRegister_RegisterFirst(st, vrfId, dst, selfRouteWithdraw, nht) ==
    LET r == newIPRouteBody(dst, selfRouteWithdraw)
        g == newNexthopRegisterBody(dst, st.cache, nht)
        s1 == IF g.body # Nil
              THEN Append(st.sent,
                          SendNexthopRegister(vrfId, g.body,
                                              g.isWithdraw \/ selfRouteWithdraw))
              ELSE st.sent
        s2 == IF r.body # Nil
              THEN Append(s1,
                          SendIPRoute(vrfId, r.body,
                                      r.isWithdraw \/ selfRouteWithdraw))
              ELSE s1
    IN  [cache |-> g.cache, sent |-> s2]

\* The two sends every arm makes for a path list and a VRF (zclient.go:631-636,
\* 658-669, 714-719).  st is [cache, sent]; selfRouteWithdraw forces
\* is-withdraw on both sends.
SendRouteAndRegister(st, vrfId, dst, selfRouteWithdraw, nht) ==
    LET r == newIPRouteBody(dst, selfRouteWithdraw)
        g == newNexthopRegisterBody(dst, st.cache, nht)
        s1 == IF r.body # Nil
              THEN Append(st.sent,
                          SendIPRoute(vrfId, r.body,
                                      r.isWithdraw \/ selfRouteWithdraw))
              ELSE st.sent
        s2 == IF g.body # Nil
              THEN Append(s1,
                          SendNexthopRegister(vrfId, g.body,
                                              g.isWithdraw \/ selfRouteWithdraw))
              ELSE s1
    IN  [cache |-> g.cache, sent |-> s2]

\* for _, i := range vrfs (zclient.go:657-670, 713-720)
RECURSIVE SendPerVrf(_, _, _, _, _)
SendPerVrf(st, vrfs, path, selfRouteWithdraw, nht) ==
    IF vrfs = <<>>
    THEN st
    ELSE SendPerVrf(SendRouteAndRegister(st, Head(vrfs), <<path>>,
                                         selfRouteWithdraw, nht),
                    Tail(vrfs), path, selfRouteWithdraw, nht)

\* The multi-path arm of WatchEventBestPath (zclient.go:629-637).
RECURSIVE BestPathMulti(_, _, _)
BestPathMulti(st, multiPathList, nht) ==
    IF multiPathList = <<>>
    THEN st
    ELSE BestPathMulti(SendRouteAndRegister(st, 0, Head(multiPathList), FALSE, nht),
                       Tail(multiPathList), nht)

\* The single-path arm of WatchEventBestPath (zclient.go:638-671).
BestPathVrfs(msg, path) ==
    IF msg.Vrf # Nil /\ NlriString(path) \in DOMAIN msg.Vrf.m
    THEN <<msg.Vrf.m[NlriString(path)]>>
    ELSE <<0>>

RECURSIVE BestPathSingle(_, _, _, _)
BestPathSingle(st, pathList, msg, nht) ==
    IF pathList = <<>>
    THEN st
    ELSE LET path == Head(pathList)
         IN  IF NlriPrefix(NlriString(path)) = DefaultRouteText
             THEN BestPathSingle(st, Tail(pathList), msg, nht)
             ELSE BestPathSingle(
                      SendPerVrf(st, BestPathVrfs(msg, path), path,
                                 IsLocal(path), nht),
                      Tail(pathList), msg, nht)

\* table.CanImportToVrf: the path carries a route target the VRF imports.
CanImportToVrf(vrf, path) == vrf.ImportRt \cap path.communities # {}

\* The VRF map of WatchEventUpdate (zclient.go:674-689); vrfs is the list
\* GetVrf() returned.
RECURSIVE ImportingVrfs(_, _, _)
ImportingVrfs(m, vrfs, p) ==
    IF vrfs = <<>>
    THEN m
    ELSE LET vrf == Head(vrfs)
         IN  ImportingVrfs(IF vrf.Id # 0 /\ CanImportToVrf(vrf, p)
                           THEN MapPut(m, NlriString(p), vrf.Id)
                           ELSE m,
                           Tail(vrfs), p)

RECURSIVE UpdateVrfMap(_, _, _)
UpdateVrfMap(m, pathList, vrfs) ==
    IF pathList = <<>>
    THEN m
    ELSE UpdateVrfMap(IF Head(pathList).family \in VpnFamilies
                      THEN ImportingVrfs(m, vrfs, Head(pathList))
                      ELSE m,
                      Tail(pathList), vrfs)

\* vrfs of one path (zclient.go:698-712).
UpdateVrfs_IgnoreRD(m, vrfs, path) ==
    IF NlriString(path) \in DOMAIN m
    THEN <<m[NlriString(path)]>>
    ELSE <<0>>

UpdateVrfs(m, vrfs, path) ==
    LET byRD == SelectSeq(vrfs, LAMBDA vrf : NlriRD(NlriString(path)) = vrf.Rd)
    IN  IF NlriString(path) \in DOMAIN m
        THEN <<m[NlriString(path)]>>
        ELSE IF Len(byRD) > 0
        THEN [i \in 1..Len(byRD) |-> byRD[i].Id]
        ELSE <<0>>

\* The path loop of WatchEventUpdate (zclient.go:690-721).
RECURSIVE UpdateLoop(_, _, _, _, _)
UpdateLoop(st, pathList, m, vrfs, nht) ==
    IF pathList = <<>>
    THEN st
    ELSE LET path == Head(pathList)
         IN  IF NlriPrefix(NlriString(path)) # DefaultRouteText
             THEN UpdateLoop(st, Tail(pathList), m, vrfs, nht)
             ELSE IF IsLocal(path)
             THEN UpdateLoop(st, Tail(pathList), m, vrfs, nht)
             ELSE UpdateLoop(SendPerVrf(st, UpdateVrfs(m, vrfs, path), path,
                                        FALSE, nht),
                             Tail(pathList), m, vrfs, nht)

(***************************************************************************)
(* The environment of the bridge loop: the configured VRFs, the engine's   *)
(* global RIB and its watcher events, and the RIB daemon's messages.       *)
(***************************************************************************)
\* S5's VRF, a second VRF with the same RD, and a VRF that imports the route
\* target the VPN paths carry.
Vrf7 == [Name |-> "red", Id |-> 7, Rd |-> RD100, ImportRt |-> {}]
Vrf8 == [Name |-> "blue", Id |-> 8, Rd |-> RD100, ImportRt |-> {}]
Vrf9 == [Name |-> "green", Id |-> 9, Rd |-> RD200, ImportRt |-> {"RT:100:1"}]
VrfConfigs == {{}, {Vrf7}, {Vrf7, Vrf8}, {Vrf7, Vrf9}}

\* The configurations the bridge is started with (zclient.go:762-765, 629):
\* the VRFs vary with tracking enabled and a single best path; multi-path
\* mode and disabled tracking are combined with one VRF set each.
BridgeConfigs ==
    {[nht |-> TRUE, multi |-> FALSE, vrfs |-> v] : v \in VrfConfigs}
    \cup {[nht |-> TRUE, multi |-> TRUE, vrfs |-> {}],
          [nht |-> FALSE, multi |-> FALSE, vrfs |-> {Vrf7}],
          [nht |-> FALSE, multi |-> TRUE, vrfs |-> {}]}

\* The paths the engine learns from its peers or originates.
EnginePaths ==
    {PathA, PathB, PathDefault, PathVpn4Default, PathVpn6, PathLocalNh}

\* What server.UpdatePath makes of a path of the RIB.
UpdatedPaths(path) ==
    {Invalidated(path), Revalidated(path, 20)} \ {path}

\* Destination.GetMultiBestPath: the usable paths of the destination, best
\* first; the withdrawn path when none is left.
BestGroup(rib, path) ==
    LET usable == {q \in rib : /\ NlriString(q) = NlriString(path)
                               /\ q.family = path.family
                               /\ ~q.IsNexthopInvalid}
    IN  IF usable = {}
        THEN <<Withdrawn(path)>>
        ELSE CHOOSE o \in Orders(usable) :
                 \A i, j \in DOMAIN o : i < j => o[i].id < o[j].id

NoVrfMap == Nil
VrfMap(path, vrf) == [nil |-> FALSE, m |-> (NlriString(path) :> vrf.Id)]

\* The VRF maps an event about the path may carry: none, or the map
\* SendPaths is given for a path of a VRF's table (zclient.go:497-509,
\* 569-582).
EventVrfMaps(path, vrfs) ==
    {NoVrfMap} \cup
    (IF path.family \in VpnFamilies
     THEN {VrfMap(path, vrf) : vrf \in vrfs}
     ELSE {})

WatchEventBestPath(path, rib, vrfMap) ==
    [kind |-> "BestPath",
     PathList |-> <<path>>,
     MultiPathList |-> IF vrfMap = NoVrfMap THEN <<BestGroup(rib, path)>> ELSE <<>>,
     Vrf |-> vrfMap]

WatchEventUpdate(path, vrfMap) ==
    [kind |-> "Update",
     PathList |-> <<path>>,
     MultiPathList |-> <<>>,
     Vrf |-> vrfMap]

\* The destination groups of a path list: one group per destination, in the
\* order in which the destinations first appear in the list.
RECURSIVE BestGroups(_, _, _)
BestGroups(rib, paths, seen) ==
    IF paths = <<>>
    THEN <<>>
    ELSE LET key == <<Head(paths).family, NlriString(Head(paths))>>
         IN  IF key \in seen
             THEN BestGroups(rib, Tail(paths), seen)
             ELSE <<BestGroup(rib, Head(paths))>>
                      \o BestGroups(rib, Tail(paths), seen \cup {key})

\* An event about several paths: the best paths that changed in one update
\* of the engine, or the paths SendPaths replays.
WatchEventList(kind, paths, rib) ==
    [kind |-> kind,
     PathList |-> paths,
     MultiPathList |-> IF kind = "BestPath"
                       THEN BestGroups(rib, paths, {})
                       ELSE <<>>,
     Vrf |-> NoVrfMap]

\* The events the engine emits about a path: an unusable path is announced
\* as a withdrawal.
EventsAbout(path, rib, vrfs) ==
    LET p == IF path.IsNexthopInvalid THEN Withdrawn(path) ELSE path
    IN  UNION {{WatchEventBestPath(p, rib, vm), WatchEventUpdate(p, vm)} :
                  vm \in EventVrfMaps(path, vrfs)}

\* Messages of the RIB daemon: redistributed routes and nexthop updates.
BridgeRouteMsgs ==
    {MkRouteMsg(api, IP4("10.0.1.0"), 24, <<IP4("192.0.2.1")>>, 20) :
        api \in {"IPV4_ROUTE_ADD", "IPV4_ROUTE_DELETE"}}

MkNexthopUpdate(family, prefix, nexthops) ==
    [Header |-> [Command |-> "NEXTHOP_UPDATE", VrfId |-> 0],
     Body |-> [Family |-> family, Prefix |-> prefix, Metric |-> 20,
               Nexthops |-> nexthops]]

NexthopUpdateMsgs ==
    {MkNexthopUpdate("AF_INET", prefix, nhs) :
        prefix \in {IP4("192.0.2.1"), IP4("192.0.2.2")},
        nhs \in {<<>>, <<[Addr |-> IP4("10.0.0.0"), Ifindex |-> 1]>>}}
    \cup {MkNexthopUpdate("AF_INET6", IP16("2001:db8::1"), <<>>)}

IsIPRouteBody(msg) == "Api" \in DOMAIN msg.Body

\* server.AddPath for a path of the RIB daemon: a withdrawal removes the
\* imported path of that prefix, an announcement replaces it.
AddPath(rib, path) ==
    LET old == {q \in rib : q.fromExternal /\ NlriString(q) = NlriString(path)}
    IN  IF path.IsWithdraw
        THEN rib \ old
        ELSE (rib \ old) \cup {FixupApiPath(path)}

(***************************************************************************)
(* Spec: the bridge loop (zclient.go:585-727) with its environment.  sent  *)
(* and submitted hold what the latest step sent; a step of the environment *)
(* sends nothing.                                                          *)
(***************************************************************************)
Init ==
    /\ \E c \in BridgeConfigs :
          /\ zNht = c.nht
          /\ useMultiplePaths = c.multi
          /\ globalVrfs = c.vrfs
    /\ globalRib = {}
    /\ nexthopCache = {}
    /\ watchCh = <<>>
    /\ zebraCh = <<>>
    /\ handled = Nil
    /\ sent = <<>>
    /\ submitted = {}
    /\ ConnStart
    /\ DelayIdle
    /\ XlateIdle
    /\ NhtIdle

\* The inputs the loop has not received yet.
Pending == Len(watchCh) + Len(zebraCh)

NothingSent == sent' = <<>> /\ submitted' = {}

\* A step of the environment of the running loop: the loop receives and
\* sends nothing.
LoopAtSelect == zPc = "run" /\ handled' = Nil /\ NothingSent

\* The engine learns a path and tells its watchers.
EngineAdd ==
    /\ Cardinality(globalRib) < MaxRib
    /\ Pending < MaxPending
    /\ \E path \in EnginePaths :
          /\ \A q \in globalRib : q.id # path.id
          /\ globalRib' = globalRib \cup {path}
          /\ \E ev \in {WatchEventBestPath(path, globalRib', NoVrfMap),
                        WatchEventUpdate(path, NoVrfMap)} :
                watchCh' = Append(watchCh, ev)
    /\ LoopAtSelect
    /\ UNCHANGED <<zNht, useMultiplePaths, globalVrfs, nexthopCache, zebraCh,
                   delayVars, xlateVars, nhtVars, connVars>>

\* The engine tells its watchers about a path it holds once more: the other
\* kind of event, or the replay of SendPaths (zclient.go:497-509).
EngineNotify ==
    /\ Pending < MaxPending
    /\ \E path \in globalRib :
          \E ev \in EventsAbout(path, globalRib, globalVrfs) :
             watchCh' = Append(watchCh, ev)
    /\ LoopAtSelect
    /\ UNCHANGED <<zNht, useMultiplePaths, globalVrfs, globalRib, nexthopCache,
                   zebraCh, delayVars, xlateVars, nhtVars, connVars>>

\* The engine tells its watchers about all paths it holds in one event.
EngineNotifyList ==
    /\ Pending < MaxPending
    /\ Cardinality(globalRib) >= 2
    /\ \E o \in Orders(globalRib), kind \in {"BestPath", "Update"} :
          LET paths == [i \in DOMAIN o |->
                           IF o[i].IsNexthopInvalid THEN Withdrawn(o[i]) ELSE o[i]]
          IN  watchCh' = Append(watchCh, WatchEventList(kind, paths, globalRib))
    /\ LoopAtSelect
    /\ UNCHANGED <<zNht, useMultiplePaths, globalVrfs, globalRib, nexthopCache,
                   zebraCh, delayVars, xlateVars, nhtVars, connVars>>

\* The engine loses a path and tells its watchers.
EngineWithdraw ==
    /\ Pending < MaxPending
    /\ \E path \in globalRib :
          /\ globalRib' = globalRib \ {path}
          /\ \E ev \in {WatchEventBestPath(Withdrawn(path), globalRib', NoVrfMap),
                        WatchEventUpdate(Withdrawn(path), NoVrfMap)} :
                watchCh' = Append(watchCh, ev)
    /\ LoopAtSelect
    /\ UNCHANGED <<zNht, useMultiplePaths, globalVrfs, nexthopCache, zebraCh,
                   delayVars, xlateVars, nhtVars, connVars>>

\* server.UpdatePath, called by the manager's trigger arm (zclient.go:172),
\* replaces a path of the RIB by its updated clone.  The nexthop whose
\* reachability changes is 192.0.2.1.
EngineUpdatePath ==
    /\ zNht
    /\ Pending < MaxPending
    /\ \E path \in globalRib :
          /\ IPEqual(GetNexthop(path), IP4("192.0.2.1"))
          /\ \E newPath \in UpdatedPaths(path) :
                /\ globalRib' = (globalRib \ {path}) \cup {newPath}
                /\ \E ev \in EventsAbout(newPath, globalRib', {}) :
                      watchCh' = Append(watchCh, ev)
    /\ LoopAtSelect
    /\ UNCHANGED <<zNht, useMultiplePaths, globalVrfs, nexthopCache, zebraCh,
                   delayVars, xlateVars, nhtVars, connVars>>

\* The RIB daemon sends a message.
ZebraDeliver ==
    /\ ~zebraClosed
    /\ Pending < MaxPending
    /\ \E msg \in BridgeRouteMsgs \cup NexthopUpdateMsgs :
          zebraCh' = Append(zebraCh, msg)
    /\ LoopAtSelect
    /\ UNCHANGED <<zNht, useMultiplePaths, globalVrfs, globalRib, nexthopCache,
                   watchCh, delayVars, xlateVars, nhtVars, connVars>>

\* case *zebra.IPRouteBody (zclient.go:596-601); AddPath may fail, which is
\* only logged.
HandleIPRoute ==
    /\ zPc = "run"
    /\ zebraCh # <<>>
    /\ IsIPRouteBody(Head(zebraCh))
    /\ zebraCh' = Tail(zebraCh)
    /\ handled' = Head(zebraCh)
    /\ LET p == createPathFromIPRouteMessage(Head(zebraCh))
       IN  IF p = Nil
           THEN UNCHANGED globalRib
           ELSE \E err \in BOOLEAN :
                   IF err
                   THEN UNCHANGED globalRib
                   ELSE /\ Cardinality(AddPath(globalRib, p)) <= MaxRib
                        /\ globalRib' = AddPath(globalRib, p)
    /\ NothingSent
    /\ UNCHANGED <<zNht, useMultiplePaths, globalVrfs, nexthopCache, watchCh,
                   delayVars, xlateVars, nhtVars, connVars>>

\* case *zebra.NexthopUpdateBody (zclient.go:602-625)
HandleNexthopUpdate ==
    /\ zPc = "run"
    /\ zebraCh # <<>>
    /\ ~IsIPRouteBody(Head(zebraCh))
    /\ zebraCh' = Tail(zebraCh)
    /\ handled' = Head(zebraCh)
    /\ LET msg == Head(zebraCh)
           body == msg.Body
       IN  IF ~zNht
           THEN NothingSent /\ UNCHANGED <<nexthopCache, globalRib>>
           ELSE \E paths \in GetPathListWithNexthop(
                                 globalRib, rfListFromNexthopUpdateBody(body),
                                 body.Prefix) :
                   LET r == createPathListFromNexthopUpdateMessage(
                                body, paths, nexthopCache)
                       b == r.nexthopUnregisterBody
                   IN  /\ globalRib' = (globalRib \ Range(paths)) \cup r.boundPaths
                       /\ submitted' = scheduleUpdate(r.updatedPathList)
                       /\ nexthopCache' = r.cache
                       /\ sent' = IF b # Nil
                                  THEN <<SendNexthopRegister(msg.Header.VrfId,
                                                             b, TRUE)>>
                                  ELSE <<>>
    /\ UNCHANGED <<zNht, useMultiplePaths, globalVrfs, watchCh,
                   delayVars, xlateVars, nhtVars, connVars>>

\* case *WatchEventBestPath (zclient.go:628-672)
HandleBestPath ==
    /\ zPc = "run"
    /\ watchCh # <<>>
    /\ Head(watchCh).kind = "BestPath"
    /\ watchCh' = Tail(watchCh)
    /\ handled' = Head(watchCh)
    /\ LET msg == Head(watchCh)
           st == [cache |-> nexthopCache, sent |-> <<>>]
           out == IF useMultiplePaths
                  THEN BestPathMulti(st, msg.MultiPathList, zNht)
                  ELSE BestPathSingle(st, msg.PathList, msg, zNht)
       IN  /\ sent' = out.sent
           /\ nexthopCache' = out.cache
    /\ submitted' = {}
    /\ UNCHANGED <<zNht, useMultiplePaths, globalVrfs, globalRib, zebraCh,
                   delayVars, xlateVars, nhtVars, connVars>>

\* case *WatchEventUpdate (zclient.go:673-721); GetVrf() lists the VRFs in
\* any order.
HandleUpdate ==
    /\ zPc = "run"
    /\ watchCh # <<>>
    /\ Head(watchCh).kind = "Update"
    /\ watchCh' = Tail(watchCh)
    /\ handled' = Head(watchCh)
    /\ \E vrfs \in Orders(globalVrfs) :
          LET msg == Head(watchCh)
              m == IF msg.Vrf # Nil
                   THEN msg.Vrf.m
                   ELSE UpdateVrfMap(<<>>, msg.PathList, vrfs)
              out == UpdateLoop([cache |-> nexthopCache, sent |-> <<>>],
                                msg.PathList, m, vrfs, zNht)
          IN  /\ sent' = out.sent
              /\ nexthopCache' = out.cache
    /\ submitted' = {}
    /\ UNCHANGED <<zNht, useMultiplePaths, globalVrfs, globalRib, zebraCh,
                   delayVars, xlateVars, nhtVars, connVars>>

Next ==
    \/ EngineAdd
    \/ EngineNotify
    \/ EngineNotifyList
    \/ EngineWithdraw
    \/ EngineUpdatePath
    \/ ZebraDeliver
    \/ HandleIPRoute
    \/ HandleNexthopUpdate
    \/ HandleBestPath
    \/ HandleUpdate

Spec == Init /\ [][Next]_vars

(***************************************************************************)
(* SpecConn: the bridge loop with the loss of the RIB daemon's session     *)
(* (zclient.go:589-594) and reconnect() (zclient.go:527-535).  Time passes *)
(* (weak fairness of the sleep), and the attempts to open the session      *)
(* succeed eventually (strong fairness of the successful attempt).         *)
(***************************************************************************)
\* The nil message Receive() yields on a closed session.
NullMessage == [null |-> TRUE]

\* The RIB daemon's session closes.
ZebraClose ==
    /\ ~zebraClosed
    /\ zebraClosed' = TRUE
    /\ LoopAtSelect
    /\ UNCHANGED <<zNht, useMultiplePaths, globalVrfs, globalRib, nexthopCache,
                   watchCh, zebraCh, zPc, zclient, watcherStopped, nhtStopped,
                   reconnectTasks, reconnectPc, sleepLeft, failures,
                   delayVars, xlateVars, nhtVars>>

\* if msg == nil (zclient.go:590-594), were the loop to go on after it.
HandleNull_KeepRunning ==
    /\ zPc = "run"
    /\ zebraClosed
    /\ zebraCh = <<>>
    /\ reconnectTasks < 2
    /\ handled' = NullMessage
    /\ NothingSent
    /\ zclient' = FALSE
    /\ reconnectTasks' = reconnectTasks + 1
    /\ reconnectPc' = "sleep"
    /\ sleepLeft' = RetryInterval
    /\ UNCHANGED <<zNht, useMultiplePaths, globalVrfs, globalRib, nexthopCache,
                   watchCh, zebraCh, zPc, zebraClosed, watcherStopped,
                   nhtStopped, failures, delayVars, xlateVars, nhtVars>>

\* if msg == nil (zclient.go:590-594): the handle is detached, reconnect()
\* is started, and the return runs the deferred z.nhtManager.stop() and
\* w.Stop() (zclient.go:556-561).
HandleNull ==
    /\ zPc = "run"
    /\ zebraClosed
    /\ zebraCh = <<>>
    /\ handled' = NullMessage
    /\ NothingSent
    /\ zclient' = FALSE
    /\ reconnectTasks' = reconnectTasks + 1
    /\ reconnectPc' = "sleep"
    /\ sleepLeft' = RetryInterval
    /\ zPc' = "exited"
    /\ nhtStopped' = zNht
    /\ watcherStopped' = TRUE
    /\ UNCHANGED <<zNht, useMultiplePaths, globalVrfs, globalRib, nexthopCache,
                   watchCh, zebraCh, zebraClosed, failures,
                   delayVars, xlateVars, nhtVars>>

\* time.Sleep(time.Second * 3) (zclient.go:529): a time unit passes.
ReconnectSleep ==
    /\ reconnectPc = "sleep"
    /\ sleepLeft > 0
    /\ sleepLeft' = sleepLeft - 1
    /\ UNCHANGED <<zNht, useMultiplePaths, globalVrfs, globalRib, nexthopCache,
                   watchCh, zebraCh, handled, sent, submitted,
                   zPc, zclient, zebraClosed, watcherStopped, nhtStopped,
                   reconnectTasks, reconnectPc, failures,
                   delayVars, xlateVars, nhtVars>>

\* StartZebraClient returns an error (zclient.go:530-534): sleep again.
ReconnectOpenFail ==
    /\ reconnectPc = "sleep"
    /\ sleepLeft = 0
    /\ sleepLeft' = RetryInterval
    /\ failures' = IF failures < MaxFailures THEN failures + 1 ELSE failures
    /\ UNCHANGED <<zNht, useMultiplePaths, globalVrfs, globalRib, nexthopCache,
                   watchCh, zebraCh, handled, sent, submitted,
                   zPc, zclient, zebraClosed, watcherStopped, nhtStopped,
                   reconnectTasks, reconnectPc,
                   delayVars, xlateVars, nhtVars>>

\* StartZebraClient succeeds (zclient.go:530-533): the server holds a client
\* again and reconnect() returns.
ReconnectOpenOk ==
    /\ reconnectPc = "sleep"
    /\ sleepLeft = 0
    /\ reconnectPc' = "done"
    /\ zclient' = TRUE
    /\ UNCHANGED <<zNht, useMultiplePaths, globalVrfs, globalRib, nexthopCache,
                   watchCh, zebraCh, handled, sent, submitted,
                   zPc, zebraClosed, watcherStopped, nhtStopped,
                   reconnectTasks, sleepLeft, failures,
                   delayVars, xlateVars, nhtVars>>

\* The configurations SpecConn starts the bridge with: tracking enabled or
\* not, a single best path, no VRF.
ConnConfigs == {[nht |-> n, multi |-> FALSE, vrfs |-> {}] : n \in BOOLEAN}

InitConn ==
    /\ \E c \in ConnConfigs :
          /\ zNht = c.nht
          /\ useMultiplePaths = c.multi
          /\ globalVrfs = c.vrfs
    /\ globalRib = {}
    /\ nexthopCache = {}
    /\ watchCh = <<>>
    /\ zebraCh = <<>>
    /\ handled = Nil
    /\ sent = <<>>
    /\ submitted = {}
    /\ ConnStart
    /\ DelayIdle
    /\ XlateIdle
    /\ NhtIdle

NextConn ==
    \/ EngineAdd
    \/ EngineNotify
    \/ EngineNotifyList
    \/ EngineWithdraw
    \/ EngineUpdatePath
    \/ ZebraDeliver
    \/ ZebraClose
    \/ HandleIPRoute
    \/ HandleNexthopUpdate
    \/ HandleBestPath
    \/ HandleUpdate
    \/ HandleNull
    \/ ReconnectSleep
    \/ ReconnectOpenFail
    \/ ReconnectOpenOk

SpecConn ==
    /\ InitConn
    /\ [][NextConn]_vars
    /\ WF_vars(ReconnectSleep)
    /\ SF_vars(ReconnectOpenOk)

(***************************************************************************)
(* SpecDelay: calculateDelay applied to every base delay a uint8 can hold  *)
(* and every penalty up to MaxPenalty.                                     *)
(***************************************************************************)
InitDelay ==
    /\ dDelay \in 0..MaxNhtDelay
    /\ dPenalty \in 0..MaxPenalty
    /\ dResult = Unset
    /\ XlateIdle
    /\ NhtIdle
    /\ BridgeIdle

CallCalculateDelay ==
    /\ dResult = Unset
    /\ dResult' = <<calculateDelay(dDelay, dPenalty)>>
    /\ UNCHANGED <<dDelay, dPenalty, xlateVars, nhtVars, bridgeVars>>

NextDelay == CallCalculateDelay

SpecDelay == InitDelay /\ [][NextDelay]_vars

(***************************************************************************)
(* Closed forms the delay is compared with.                                *)
(***************************************************************************)
MaxExponent == 20

\* ceil(log2(penalty / 950)) over the reals: the least n with 950 * 2^n >= penalty.
CeilLog2OfRatio(pen) ==
    CHOOSE n \in 0..MaxExponent :
        /\ PenaltyThreshold * (2 ^ n) >= pen
        /\ \A k \in 0..(n - 1) : PenaltyThreshold * (2 ^ k) < pen

\* The least n >= 1 with floor(penalty / 2^n) <= 950.
LeastHalvings(pen) ==
    CHOOSE n \in 1..MaxExponent :
        /\ pen \div (2 ^ n) <= PenaltyThreshold
        /\ \A k \in 1..(n - 1) : pen \div (2 ^ k) > PenaltyThreshold

\* C2 (as claimed): with no decay tick the delay after the k-th consecutive
\* batch (penalty = 500*k, k >= 1) is not larger than the delay after the
\* (k+1)-th batch, for every base delay a uint8 can hold.
C2_DampingMonotone ==
    (/\ dResult # Unset
     /\ dPenalty >= PenaltyStep
     /\ dPenalty % PenaltyStep = 0)
        => dResult[1] <= calculateDelay(dDelay, dPenalty + PenaltyStep)

\* C3 (as claimed): calculateDelay returns the base delay when penalty <= 950
\* and otherwise exactly 8 + 8*ceil(log2(penalty/950)).
C3_DelayClosedForm ==
    dResult # Unset =>
        dResult[1] = IF dPenalty <= PenaltyThreshold
                  THEN dDelay
                  ELSE DelayStep + DelayStep * CeilLog2OfRatio(dPenalty)

\* C3 (amended): calculateDelay returns the base delay when penalty <= 950
\* and otherwise 8 + 8*n, n the least n >= 1 with floor(penalty / 2^n) <= 950;
\* that is the claimed closed form or 8 less than it.
C3_DelayByHalving ==
    dResult # Unset =>
        /\ dResult[1] = IF dPenalty <= PenaltyThreshold
                     THEN dDelay
                     ELSE DelayStep + DelayStep * LeastHalvings(dPenalty)
        /\ dPenalty > PenaltyThreshold =>
              LET claimed == DelayStep + DelayStep * CeilLog2OfRatio(dPenalty)
              IN  dResult[1] \in {claimed, claimed - DelayStep}

\* C3 witness: the delay was computed for a penalty whose halving truncates.
C3_Witness ==
    /\ dResult # Unset
    /\ dPenalty = 1901
    /\ dResult[1] = 16

(***************************************************************************)
(* Claims about the translators (SpecXlate).                               *)
(***************************************************************************)
\* The message was accepted on ingress: a path was created from it.
IngressAccepted == xMsg # Nil /\ xStage \in {"paths", "done"}

\* C5 (as claimed): an accepted route message, translated to a path and back
\* with newIPRouteBody, yields a route message with the same prefix, the same
\* prefix length and the same first nexthop.
C5_RoundTrip ==
    (IngressAccepted /\ xStage = "done") =>
        LET in == xMsg.Body
            out == xOut[1].body
        IN  /\ out # Nil
            /\ IPEqual(out.Prefix, in.Prefix)
            /\ out.PrefixLength = in.PrefixLength
            /\ Len(in.Nexthops) > 0 =>
                  /\ Len(out.Nexthops) > 0
                  /\ IPEqual(out.Nexthops[1], in.Nexthops[1])

\* C5 (amended): the path created from an accepted route message has the
\* message's prefix, prefix length and first nexthop (no nexthop when the
\* message has none), mirrors its withdraw flag and is marked from-external;
\* translating it back with newIPRouteBody yields no message.
C5_IngressKeepsEgressElides ==
    IngressAccepted =>
        LET in == xMsg.Body
            p == xDst[1]
        IN  /\ Len(xDst) = 1
            /\ IPEqual(p.nlri.prefix, in.Prefix)
            /\ p.nlri.length = in.PrefixLength
            /\ IF Len(in.Nexthops) > 0
               THEN IPEqual(GetNexthop(p), in.Nexthops[1])
               ELSE GetNexthop(p) = NilIP
            /\ p.IsWithdraw = BodyIsWithdraw(in)
            /\ IsFromExternal(p)
            /\ xStage = "done" => xOut[1] = NoRoute

\* C5 witness: a message with two nexthops went through ingress and egress,
\* and egress returned no message.
C5_Witness ==
    /\ IngressAccepted
    /\ xStage = "done"
    /\ Len(xMsg.Body.Nexthops) = 2
    /\ xMsg.Body.Nexthops[1] # xMsg.Body.Nexthops[2]
    /\ xOut[1].body = Nil

IsLoopbackFor(family, ip) ==
    IF family \in V4Families
    THEN ip = IP4("127.0.0.1")
    ELSE ip = IP16("::1")

\* A call of newIPRouteBody with selfRouteWithdraw = true returned a message.
SelfWithdrawReturned ==
    /\ xStage = "done"
    /\ xSelf
    /\ xOut[1].body # Nil

\* C6 (as claimed): when newIPRouteBody is called with self-route-withdraw
\* and returns a message, every nexthop is the loopback address of the family
\* and the returned is-withdraw is true.
C6_SelfWithdrawEncoding ==
    SelfWithdrawReturned =>
        LET out == xOut[1]
            rep == filterOutExternalPath(xDst)[1]
        IN  /\ \A i \in 1..Len(out.body.Nexthops) :
                  IsLoopbackFor(rep.family, out.body.Nexthops[i])
            /\ out.isWithdraw = TRUE

\* C6 (amended): when newIPRouteBody is called with self-route-withdraw and
\* returns a message, it carries one loopback nexthop of the family per
\* non-external path, and the returned is-withdraw is the is-withdraw flag of
\* the first non-external path (false for a path that is not withdrawn).
C6_SelfWithdrawLoopback ==
    SelfWithdrawReturned =>
        LET out == xOut[1]
            kept == filterOutExternalPath(xDst)
        IN  /\ Len(out.body.Nexthops) = Len(kept)
            /\ \A i \in 1..Len(out.body.Nexthops) :
                  IsLoopbackFor(kept[1].family, out.body.Nexthops[i])
            /\ out.isWithdraw = kept[1].IsWithdraw

\* C6 witness: a self-withdraw message was returned for a path that is not
\* withdrawn and whose own nexthop is not the loopback.
C6_Witness ==
    /\ SelfWithdrawReturned
    /\ xDst = <<PathA>>
    /\ xOut[1].isWithdraw = FALSE

(***************************************************************************)
(* Claims about the nexthop tracking manager (SpecNHT).                    *)
(***************************************************************************)
\* The paths of a list whose nexthop prints as key.
PathsFor(paths, key) ==
    SelectSeq(paths, LAMBDA p : IPString(GetNexthop(p)) = key)

\* The step is the batch arm: only it raises the penalty.
BatchReceived == penalty' = penalty + PenaltyStep
\* The step is the trigger arm ending an armed window.
WindowTriggered == isScheduled /\ ~isScheduled'

\* Trigger posts outstanding: armed timers and callbacks waiting to post.
PendingPosts == timers + callbacks

\* Before stop() an armed window has exactly one trigger post outstanding
\* and there is none outside a window.
OnePostPerWindow ==
    stopPc = 0 => PendingPosts = (IF isScheduled THEN 1 ELSE 0)

\* C1: during an armed window (isScheduled) a further batch arms no timer
\* and leaves the window armed; the window has exactly one trigger post
\* outstanding, so exactly one trigger is handled for it; and the path list
\* passed to UpdatePath at that trigger holds, for every nexthop of the
\* window, exactly the paths of the batch submitted last for that nexthop.
C1_DebounceCoalescing ==
    [][/\ (isScheduled /\ BatchReceived) =>
              /\ timers' = timers
              /\ callbacks' = callbacks
              /\ isScheduled'
       /\ OnePostPerWindow
       /\ OnePostPerWindow'
       /\ WindowTriggered =>
              /\ updatePathArg' # Unset
              /\ \A key \in DOMAIN window :
                    PathsFor(updatePathArg'[1], key) = window[key].latest
              /\ \A i \in 1..Len(updatePathArg'[1]) :
                    IPString(GetNexthop(updatePathArg'[1][i])) \in DOMAIN window
      ]_vars

\* C1 witness: before any stop(), a window in which three batches were
\* submitted for 192.0.2.1 has been triggered, and UpdatePath got the last one.
C1_Witness ==
    /\ stopPc = 0
    /\ ~isScheduled
    /\ updatePathArg # Unset
    /\ <<"192.0.2.1">> \in DOMAIN window
    /\ window[<<"192.0.2.1">>].count = 3
    /\ PathsFor(updatePathArg[1], <<"192.0.2.1">>) = window[<<"192.0.2.1">>].latest
    /\ PendingPosts = 0

\* The number of paths in all batches of the scheduled-path map.
RECURSIVE ScheduledCount(_, _)
ScheduledCount(m, keys) ==
    IF keys = {}
    THEN 0
    ELSE LET k == CHOOSE k \in keys : TRUE
         IN  Len(m[k]) + ScheduledCount(m, keys \ {k})

\* C13: a step of the trigger arm calls UpdatePath with a list that holds,
\* for every nexthop of the scheduled-path map, exactly the batch stored for
\* it and nothing else; after the step the map is empty and is-scheduled is
\* false, whether the call failed or not; no other step calls UpdatePath, and
\* the map gets entries only from the batch arm, so a batch whose submission
\* failed is not submitted again.
C13_TriggerFlushNoRetry ==
    [][/\ arm' = "trigger" =>
             /\ updatePathArg' # Unset
             /\ \A key \in DOMAIN scheduledPathList :
                   PathsFor(updatePathArg'[1], key) = scheduledPathList[key]
             /\ Len(updatePathArg'[1]) =
                    ScheduledCount(scheduledPathList, DOMAIN scheduledPathList)
             /\ scheduledPathList' = <<>>
             /\ ~isScheduled'
       /\ arm' # "trigger" =>
             /\ updatePathArg' = updatePathArg
             /\ ~updateErr'
       /\ arm' \notin {"trigger", "batch"} =>
             scheduledPathList' = scheduledPathList
       /\ arm' = "batch" =>
             \A key \in DOMAIN scheduledPathList' :
                 \/ /\ key \in DOMAIN scheduledPathList
                    /\ scheduledPathList'[key] = scheduledPathList[key]
                 \/ /\ key \in DOMAIN window'
                    /\ scheduledPathList'[key] = window'[key].latest
      ]_vars

\* A trigger was handled before any stop(): UpdatePath was given the batches
\* of two nexthops and failed; the map is empty and nothing is scheduled.
C13_Witness ==
    /\ stopPc = 0
    /\ arm = "trigger"
    /\ updateErr
    /\ updatePathArg # Unset
    /\ PathsFor(updatePathArg[1], <<"192.0.2.1">>) # <<>>
    /\ PathsFor(updatePathArg[1], <<"192.0.2.2">>) # <<>>
    /\ scheduledPathList = <<>>
    /\ ~isScheduled

\* C15 (as claimed): no goroutine of the manager panics: every armed timer
\* is stopped before stop() closes the trigger channel, so no timer callback
\* sends on, or is blocked sending on, the closed channel.
C15_NoPanicAtShutdown == ~panicked

\* C16 (as claimed): once stop() has closed its channels the loop handles no
\* further batch or trigger arm: it charges no penalty, arms no timer and
\* calls UpdatePath no more.
C16_ExitAtNextSelect ==
    [][stopPc = 3 =>
          /\ arm' \notin {"batch", "trigger"}
          /\ penalty' <= penalty
          /\ timers' <= timers
          /\ updatePathArg' = updatePathArg
      ]_vars

\* C17 (as claimed): at most one trigger post is outstanding, is-scheduled
\* is true exactly while one is, a batch received while is-scheduled arms no
\* timer, and no trigger is handled while is-scheduled is false.
C17_SingleTimerWindow ==
    [][/\ PendingPosts' <= 1
       /\ isScheduled' <=> (PendingPosts' = 1)
       /\ (arm' = "batch" /\ isScheduled) => timers' = timers
       /\ arm' = "trigger" => isScheduled
      ]_vars

\* C18: the penalty starts at 0 and is never negative; a step changes it
\* only in the batch arm, by +500, and in the tick arm, to its integer half;
\* and in a run of the loop in which from some point on no further batch is
\* received, the ticks bring the penalty to 0, where it stays.
C18_PenaltyLifecycle ==
    /\ penalty = 0
    /\ [](penalty >= 0)
    /\ [][\/ penalty' = penalty
          \/ arm' = "batch" /\ penalty' = penalty + PenaltyStep
          \/ arm' = "tick" /\ penalty' = penalty \div 2]_vars
    /\ <>[](arm # "batch") => <>[](penalty = 0)

\* After three batches for 192.0.2.1 were received, ticks have brought the
\* penalty back to 0.
C18_Witness ==
    /\ arm = "tick"
    /\ penalty = 0
    /\ <<"192.0.2.1">> \in DOMAIN window
    /\ window[<<"192.0.2.1">>].count = 3

(***************************************************************************)
(* Claims about the bridge loop (Spec).                                    *)
(***************************************************************************)
IsWatchEvent(in) == "kind" \in DOMAIN in
IsNexthopUpdateMsg(in) == "Body" \in DOMAIN in /\ ~IsIPRouteBody(in)
IsIPRouteMsg(in) == "Body" \in DOMAIN in /\ IsIPRouteBody(in)

\* The paths an event carries, in its path list or in its groups.
EventPaths(ev) ==
    Range(ev.PathList) \cup UNION {Range(g) : g \in Range(ev.MultiPathList)}

IsActive(path) == ~path.IsWithdraw /\ ~path.IsNexthopInvalid
NexthopText(path) == IPString(GetNexthop(path))

\* The addresses a sent message names: the nexthops of a route message, the
\* entries of a register or unregister message.
SentAddrs(msg) ==
    IF msg.Command \in {"NEXTHOP_REGISTER", "NEXTHOP_UNREGISTER"}
    THEN [i \in DOMAIN msg.Body.Nexthops |-> IPString(msg.Body.Nexthops[i].Prefix)]
    ELSE [i \in DOMAIN msg.Body.Nexthops |-> IPString(msg.Body.Nexthops[i])]

\* The addresses of the NEXTHOP_REGISTER entries of a sequence of messages.
RECURSIVE RegisterAddrs(_)
RegisterAddrs(msgs) ==
    IF msgs = <<>>
    THEN <<>>
    ELSE (IF Head(msgs).Command = "NEXTHOP_REGISTER"
          THEN SentAddrs(Head(msgs))
          ELSE <<>>) \o RegisterAddrs(Tail(msgs))

\* The paths of the RIB bound to the nexthop of a nexthop update.
BoundPaths(rib, body) ==
    {p \in rib :
        /\ p.family \in (IF body.Family = "AF_INET" THEN V4Families
                         ELSE IF body.Family = "AF_INET6" THEN V6Families
                         ELSE {})
        /\ NexthopText(p) = IPString(body.Prefix)}

\* C4 (as claimed): once the bridge has received every event, every address
\* in the cache is the nexthop of an active (not withdrawn, nexthop-valid)
\* path of the RIB; no address stays after its paths have been withdrawn.
C4_CacheEntriesLive ==
    Pending = 0 =>
        \A a \in nexthopCache :
            \E p \in globalRib : IsActive(p) /\ NexthopText(p) = a

\* C4 (amended): an address enters the cache only when the bridge handles a
\* watcher event carrying an active path of the engine's own with that
\* nexthop, and it leaves the cache only when a nexthop update for it finds
\* no path bound to it, which then always removes it; until then it stays,
\* also after all paths using it have been withdrawn.
C4_CacheLazyUnregister ==
    [][/\ \A a \in nexthopCache' \ nexthopCache :
             /\ IsWatchEvent(handled')
             /\ \E p \in EventPaths(handled') :
                   IsActive(p) /\ ~IsFromExternal(p) /\ NexthopText(p) = a
       /\ \A a \in nexthopCache \ nexthopCache' :
             /\ IsNexthopUpdateMsg(handled')
             /\ IPString(handled'.Body.Prefix) = a
             /\ BoundPaths(globalRib, handled'.Body) = {}
       /\ (zNht /\ IsNexthopUpdateMsg(handled')
                /\ BoundPaths(globalRib, handled'.Body) = {})
             => IPString(handled'.Body.Prefix) \notin nexthopCache'
      ]_vars

\* An address is in the cache although the RIB is empty and the bridge has
\* received every withdrawal.
C4_Witness ==
    /\ Pending = 0
    /\ globalRib = {}
    /\ nexthopCache # {}
    /\ IsWatchEvent(handled)
    /\ \E p \in EventPaths(handled) : p.IsWithdraw /\ NexthopText(p) \in nexthopCache

\* C7: a path imported from the RIB daemon causes no message back: handling
\* an inbound route message sends nothing and adds only from-external paths
\* to the RIB; handling a watcher event whose paths are all from-external
\* sends nothing and leaves the cache alone; and whatever an event carries,
\* the addresses in the sent messages and the addresses added to the cache
\* are nexthops of its paths that are not from-external (or the loopback of
\* a self-withdraw).
C7_ExternalElision ==
    [][/\ IsIPRouteMsg(handled') =>
             /\ sent' = <<>>
             /\ nexthopCache' = nexthopCache
             /\ \A p \in globalRib' \ globalRib : IsFromExternal(p)
       /\ IsWatchEvent(handled') =>
             LET internal == {p \in EventPaths(handled') : ~IsFromExternal(p)}
                 own == {NexthopText(p) : p \in internal}
             IN  /\ internal = {} => (sent' = <<>> /\ nexthopCache' = nexthopCache)
                 /\ nexthopCache' \ nexthopCache \subseteq own
                 /\ \A i \in DOMAIN sent' :
                       Range(SentAddrs(sent'[i])) \subseteq
                           own \cup {Loopback4, Loopback6}
      ]_vars

\* An event carrying only a from-external path, announced with a nexthop
\* that is not in the cache, was handled with tracking enabled: nothing sent.
C7_Witness ==
    /\ zNht
    /\ IsWatchEvent(handled)
    /\ EventPaths(handled) # {}
    /\ \A p \in EventPaths(handled) :
          /\ IsFromExternal(p)
          /\ IsActive(p)
          /\ NexthopText(p) \notin nexthopCache
    /\ sent = <<>>

\* C8: handling a nexthop update with tracking enabled submits exactly one
\* clone per path bound to the nexthop; with zero nexthops in the update the
\* clone is the path with nexthop-invalid set, otherwise the path with
\* nexthop-invalid cleared and the MED set to the update's metric; the paths
\* of the RIB are not changed.
C8_NexthopInvalidation ==
    [][(zNht /\ IsNexthopUpdateMsg(handled')) =>
          LET body == handled'.Body
              bound == BoundPaths(globalRib, body)
              clones == IF submitted' = {}
                        THEN <<>>
                        ELSE CHOOSE b \in submitted' : TRUE
              expected(p) ==
                  IF Len(body.Nexthops) = 0
                  THEN [p EXCEPT !.IsNexthopInvalid = TRUE]
                  ELSE [p EXCEPT !.IsNexthopInvalid = FALSE,
                                 !.med = <<body.Metric>>]
          IN  /\ Cardinality(submitted') <= 1
              /\ Len(clones) = Cardinality(bound)
              /\ Range(clones) = {expected(p) : p \in bound}
              /\ globalRib' = globalRib
      ]_vars

\* A nexthop update with a nexthop was handled while two paths were bound,
\* one of them invalid in the RIB: its clone is valid, the path still is not.
C8_Witness ==
    /\ IsNexthopUpdateMsg(handled)
    /\ Len(handled.Body.Nexthops) > 0
    /\ \E b \in submitted :
          /\ Len(b) = 2
          /\ \E p \in globalRib, i \in DOMAIN b :
                /\ p.IsNexthopInvalid
                /\ b[i].id = p.id
                /\ ~b[i].IsNexthopInvalid
                /\ b[i].med = <<handled.Body.Metric>>

\* C9: a register attempt for an address in the cache reports it present and
\* leaves the cache unchanged, and the NEXTHOP_REGISTER entries the bridge
\* sends name an address at most once until it is removed from the cache:
\* never an address that is in the cache, never an address twice in a step.
C9_RegisterOnce ==
    [][LET regs == RegisterAddrs(sent')
       IN  /\ \A i, j \in DOMAIN regs : regs[i] = regs[j] => i = j
           /\ \A i \in DOMAIN regs : regs[i] \notin nexthopCache
           /\ \A a \in nexthopCache' :
                 registerNexthop(nexthopCache', ParseIP(a)) =
                     [ok |-> FALSE, cache |-> nexthopCache']
      ]_vars

\* The S5 event: a PostUpdate of the IPv6-VPN path without a VRF map.
S5Event == WatchEventUpdate(PathVpn6, NoVrfMap)

\* C10 (as claimed): after the PostUpdate of {RD 100:1, 2001:db8::/64} with
\* the VRF {id 7, rd 100:1} configured, an IPv6 route add with vrf-id 7 was
\* sent.
C10_VpnPostUpdateVrf7 ==
    (handled = S5Event /\ Vrf7 \in globalVrfs) =>
        \E i \in DOMAIN sent :
            sent[i].Command = "IPV6_ROUTE_ADD" /\ sent[i].VrfId = 7

\* C10 (amended): a PostUpdate without a VRF map of a path of a VPN family
\* that is neither local nor from-external sends nothing unless the prefix
\* is the default route 0.0.0.0/0, so nothing is sent for S5; for the
\* default route of RD 100:1, with the VRF {id 7, rd 100:1} configured and no
\* VRF importing the path by route target, the route is sent with vrf-id 7
\* (an add, or a delete for a withdrawn path).
C10_VpnPostUpdateDefaultOnly ==
    (/\ IsWatchEvent(handled)
     /\ handled.kind = "Update"
     /\ handled.Vrf = NoVrfMap
     /\ Len(handled.PathList) = 1
     /\ handled.PathList[1].family \in VpnFamilies
     /\ ~IsLocal(handled.PathList[1])
     /\ ~IsFromExternal(handled.PathList[1]))
    => LET p == handled.PathList[1]
       IN  IF NlriPrefix(NlriString(p)) # DefaultRouteText
           THEN sent = <<>>
           ELSE (/\ NlriRD(NlriString(p)) = RD100
                 /\ Vrf7 \in globalVrfs
                 /\ \A v \in globalVrfs : ~CanImportToVrf(v, p))
                => \E i \in DOMAIN sent :
                      /\ sent[i].Command = IF p.IsWithdraw
                                           THEN "IPV4_ROUTE_DELETE"
                                           ELSE "IPV4_ROUTE_ADD"
                      /\ sent[i].VrfId = 7
                      /\ sent[i].Body.PathId = p.nlri.localId

\* The PostUpdate of the IPv4-VPN default route of RD 100:1 was handled and
\* its route add went out with vrf-id 7.
C10_Witness ==
    /\ handled = WatchEventUpdate(PathVpn4Default, NoVrfMap)
    /\ Vrf7 \in globalVrfs
    /\ \E i \in DOMAIN sent :
          sent[i].Command = "IPV4_ROUTE_ADD" /\ sent[i].VrfId = 7

\* C14: handling a nexthop update with tracking enabled sends a
\* NEXTHOP_UNREGISTER exactly when no path of the affected families is bound
\* to the nexthop; then the message names the update's {family, prefix}, the
\* address is not in the cache afterwards, the rest of the cache is kept and
\* nothing is submitted to the manager; otherwise nothing is sent, the cache
\* is unchanged and one batch with a clone per bound path is submitted.
C14_UnregisterWhenUnbound ==
    [][(zNht /\ IsNexthopUpdateMsg(handled')) =>
          LET body == handled'.Body
              addr == IPString(body.Prefix)
          IN  IF BoundPaths(globalRib, body) = {}
              THEN /\ sent' = <<[Command |-> "NEXTHOP_UNREGISTER",
                                 VrfId |-> handled'.Header.VrfId,
                                 Body |-> [Nexthops |->
                                     <<[Family |-> body.Family,
                                        Prefix |-> body.Prefix]>>]]>>
                   /\ nexthopCache' = nexthopCache \ {addr}
                   /\ submitted' = {}
              ELSE /\ sent' = <<>>
                   /\ nexthopCache' = nexthopCache
                   /\ Cardinality(submitted') = 1
                   /\ \A b \in submitted' :
                         Len(b) = Cardinality(BoundPaths(globalRib, body))
      ]_vars

\* A nexthop update for an address was handled while the RIB held paths, none
\* of them bound to it: the unregister went out, nothing was submitted, and
\* the address of another nexthop is still in the cache.
C14_Witness ==
    /\ zNht
    /\ IsNexthopUpdateMsg(handled)
    /\ globalRib # {}
    /\ BoundPaths(globalRib, handled.Body) = {}
    /\ Len(sent) = 1
    /\ sent[1].Command = "NEXTHOP_UNREGISTER"
    /\ submitted = {}
    /\ nexthopCache # {}
    /\ IPString(handled.Body.Prefix) \notin nexthopCache

IsDefaultRoute(path) == NlriPrefix(NlriString(path)) = DefaultRouteText
IsRouteCommand(msg) ==
    msg.Command \in {"IPV4_ROUTE_ADD", "IPV4_ROUTE_DELETE",
                     "IPV6_ROUTE_ADD", "IPV6_ROUTE_DELETE"}
IsRouteDelete(msg) ==
    msg.Command \in {"IPV4_ROUTE_DELETE", "IPV6_ROUTE_DELETE"}

\* A sent message concerns a path: a route message for the path's prefix, or
\* a register or unregister message naming the path's nexthop.
MessageFor(msg, path) ==
    IF IsRouteCommand(msg)
    THEN /\ IPString(msg.Body.Prefix) = IPString(path.nlri.prefix)
         /\ msg.Body.PrefixLength = path.nlri.length
    ELSE NexthopText(path) \in Range(SentAddrs(msg))

\* C19 (as claimed): every message the BestPath handler sends concerns a path
\* of the event whose prefix is not the default route, and every message the
\* PostUpdate handler sends concerns a path of the event that is a default
\* route and not local; so no path gets messages from both handlers.
C19_DefaultRoutePartition ==
    [][IsWatchEvent(handled') =>
          LET served ==
                  {p \in EventPaths(handled') :
                      IF handled'.kind = "BestPath"
                      THEN ~IsDefaultRoute(p)
                      ELSE IsDefaultRoute(p) /\ ~IsLocal(p)}
          IN  \A i \in DOMAIN sent' :
                 \E p \in served : MessageFor(sent'[i], p)
      ]_vars

\* C20 (as claimed): when the paths of a BestPath event that are the
\* engine's own are all local, every route message the handler sends is a
\* route delete that carries loopback nexthops only.
C20_LocalSelfWithdraw ==
    [][(/\ IsWatchEvent(handled')
        /\ handled'.kind = "BestPath"
        /\ \A p \in EventPaths(handled') : ~IsFromExternal(p) => IsLocal(p))
       => \A i \in DOMAIN sent' :
             IsRouteCommand(sent'[i]) =>
                 /\ IsRouteDelete(sent'[i])
                 /\ Range(SentAddrs(sent'[i])) \subseteq {Loopback4, Loopback6}
      ]_vars

\* What the BestPath handler processes one at a time: the paths of the path
\* list, or with multi-path enabled the destination groups.
SendUnits(ev) ==
    IF useMultiplePaths
    THEN ev.MultiPathList
    ELSE [i \in DOMAIN ev.PathList |-> <<ev.PathList[i]>>]

\* The messages of one unit: at most a route message for the prefix of one
\* of its paths followed by at most a register or unregister message that
\* names nexthops of its paths.
IsSegment(msgs, unit) ==
    /\ Len(msgs) <= 2
    /\ \A i \in DOMAIN msgs :
          IF IsRouteCommand(msgs[i])
          THEN /\ i = 1
               /\ \E p \in Range(unit) : MessageFor(msgs[i], p)
          ELSE /\ i = Len(msgs)
               /\ Range(SentAddrs(msgs[i])) \subseteq
                      {NexthopText(p) : p \in Range(unit)}
    /\ Len(msgs) = 2 => IsRouteCommand(msgs[1]) /\ ~IsRouteCommand(msgs[2])

\* The messages split into consecutive segments, one per unit, in order.
RECURSIVE InUnitOrder(_, _)
InUnitOrder(msgs, units) ==
    IF units = <<>>
    THEN msgs = <<>>
    ELSE \E j \in 0..Len(msgs) :
            /\ IsSegment(SubSeq(msgs, 1, j), Head(units))
            /\ InUnitOrder(SubSeq(msgs, j + 1, Len(msgs)), Tail(units))

\* C11: with tracking enabled the messages the BestPath handler sends are,
\* path by path in the order of the event's list (destination group by
\* group with multi-path enabled), the path's route message followed by its
\* register message, each of them optional, so every message of a path
\* precedes every message of a later path; and after the handler every
\* address named in a NEXTHOP_REGISTER it sent is in the cache.
C11_PerPathSendOrder ==
    [][(zNht /\ IsWatchEvent(handled') /\ handled'.kind = "BestPath") =>
          /\ InUnitOrder(sent', SendUnits(handled'))
          /\ Range(RegisterAddrs(sent')) \subseteq nexthopCache'
      ]_vars

\* A BestPath event with two paths was handled in single-path mode: route
\* and register of the first path, then route and register of the second,
\* and both nexthops are in the cache.
C11_Witness ==
    /\ zNht
    /\ ~useMultiplePaths
    /\ IsWatchEvent(handled)
    /\ handled.kind = "BestPath"
    /\ Len(handled.PathList) = 2
    /\ Len(sent) = 4
    /\ IsRouteCommand(sent[1]) /\ MessageFor(sent[1], handled.PathList[1])
    /\ ~MessageFor(sent[1], handled.PathList[2])
    /\ sent[2].Command = "NEXTHOP_REGISTER"
    /\ IsRouteCommand(sent[3]) /\ MessageFor(sent[3], handled.PathList[2])
    /\ sent[4].Command = "NEXTHOP_REGISTER"
    /\ Range(RegisterAddrs(sent)) \subseteq nexthopCache
    /\ Cardinality(nexthopCache) = 2

\* What C12 says of one step.
ReconnectStep ==
    /\ (zPc = "run" /\ handled' = NullMessage) =>
          /\ zPc' = "exited"
          /\ ~zclient'
          /\ reconnectTasks' = reconnectTasks + 1
          /\ reconnectPc' = "sleep" /\ sleepLeft' = RetryInterval
          /\ watcherStopped'
          /\ (zNht => nhtStopped')
    /\ zPc = "exited" =>
          /\ zPc' = "exited"
          /\ UNCHANGED <<watchCh, zebraCh, handled, sent, submitted,
                         nexthopCache, globalRib>>
    /\ reconnectTasks' <= 1
    /\ (reconnectPc = "sleep" /\ sleepLeft > 0) =>
          /\ reconnectPc' = "sleep"
          /\ sleepLeft' \in {sleepLeft, sleepLeft - 1}
          /\ failures' = failures
    /\ (reconnectPc = "sleep" /\ sleepLeft = 0) =>
          \/ UNCHANGED <<reconnectPc, sleepLeft, failures, zclient>>
          \/ reconnectPc' = "sleep" /\ sleepLeft' = RetryInterval
                                   /\ ~zclient'
          \/ reconnectPc' = "done" /\ zclient'
    /\ reconnectPc = "done" =>
          UNCHANGED <<reconnectPc, sleepLeft, failures, zclient>>

\* C12: the loop's step on the nil message detaches the client handle,
\* starts one reconnect task (the only one ever started), stops the watcher
\* and, if there is one, the tracking manager, and ends the loop: afterwards
\* nothing is received from either channel, nothing is sent and the cache is
\* not touched.  The reconnect task attempts to open the session only after
\* a full sleep of 3 time units, sleeps again after a failed attempt, returns
\* only on a successful one, and once started it eventually has the session
\* re-established.
C12_ReconnectAfterLoss ==
    /\ [][ReconnectStep]_vars
    /\ (reconnectPc = "sleep") ~> (reconnectPc = "done" /\ zclient)

\* The session was lost while a watcher event was pending; the loop exited
\* without receiving it, and the reconnect task re-established the session
\* after two failed attempts.
C12_Witness ==
    /\ zPc = "exited"
    /\ handled = NullMessage
    /\ watchCh # <<>>
    /\ reconnectTasks = 1
    /\ failures = 2
    /\ reconnectPc = "done"
    /\ zclient
    /\ zNht /\ nhtStopped /\ watcherStopped

(***************************************************************************)
(* The nexthop cache against the registrations sent to the RIB daemon.     *)
(***************************************************************************)
IsRegistrationFor(msg, addr) ==
    /\ msg.Command \in {"NEXTHOP_REGISTER", "NEXTHOP_UNREGISTER"}
    /\ addr \in Range(SentAddrs(msg))

\* The command of the last register or unregister message of msgs that
\* names addr; "none" if no message of msgs does.
LastRegistration(msgs, addr) ==
    LET named == {i \in DOMAIN msgs : IsRegistrationFor(msgs[i], addr)}
    IN  IF named = {}
        THEN "none"
        ELSE msgs[CHOOSE i \in named : \A j \in named : j <= i].Command

\* C21 (as claimed): the cache starts empty, and every step of the bridge
\* keeps the most recent register or unregister message for each cached
\* address a NEXTHOP_REGISTER: an address that enters the cache has a
\* NEXTHOP_REGISTER as the last such message of the step, and for an address
\* that stays in the cache the step's last such message, if there is one, is
\* not a NEXTHOP_UNREGISTER.
C21_CacheMirrorsRegistrations ==
    [][\A addr \in nexthopCache' :
          IF addr \in nexthopCache
          THEN LastRegistration(sent', addr) # "NEXTHOP_UNREGISTER"
          ELSE LastRegistration(sent', addr) = "NEXTHOP_REGISTER"
      ]_vars

\* The same, for the steps that handle no BestPath event carrying a local
\* path.
C21_ExceptLocalBestPath ==
    [][~(/\ IsWatchEvent(handled')
         /\ handled'.kind = "BestPath"
         /\ ~useMultiplePaths
         /\ \E p \in EventPaths(handled') : IsLocal(p))
       => \A addr \in nexthopCache' :
             IF addr \in nexthopCache
             THEN LastRegistration(sent', addr) # "NEXTHOP_UNREGISTER"
             ELSE LastRegistration(sent', addr) = "NEXTHOP_REGISTER"
      ]_vars

\* A BestPath event for a local path with a specified nexthop was handled:
\* the nexthop entered the cache and the message sent for it is a
\* NEXTHOP_UNREGISTER.
C21_LocalUnregisterCached ==
    /\ zNht /\ ~useMultiplePaths
    /\ IsWatchEvent(handled)
    /\ handled.kind = "BestPath"
    /\ \E p \in EventPaths(handled) :
          /\ IsLocal(p)
          /\ NexthopText(p) \in nexthopCache
          /\ LastRegistration(sent, NexthopText(p)) = "NEXTHOP_UNREGISTER"

(***************************************************************************)
(* Every scheduled batch is flushed.                                       *)
(***************************************************************************)
\* The batch is the one the map holds for its nexthop.
Held(batch) ==
    /\ IPString(GetNexthop(batch[1])) \in DOMAIN scheduledPathList
    /\ scheduledPathList[IPString(GetNexthop(batch[1]))] = batch

\* A later batch for the same nexthop has replaced the batch in the map.
Overwritten(batch) ==
    /\ IPString(GetNexthop(batch[1])) \in DOMAIN scheduledPathList
    /\ scheduledPathList[IPString(GetNexthop(batch[1]))] # batch

\* The paths of the batch are part of the list, in their order.
Includes(list, batch) ==
    \E i \in 0..(Len(list) - Len(batch)) :
        SubSeq(list, i + 1, i + Len(batch)) = batch

\* The trigger arm has just passed the batch to UpdatePath.
Flushed(batch) ==
    /\ arm = "trigger"
    /\ updatePathArg # <<>>
    /\ Includes(updatePathArg[1], batch)

\* The batch arm taken while no flush is scheduled arms a timer.
BatchArmsTimer ==
    (arm' = "batch" /\ ~isScheduled)
        => (isScheduled' /\ timers' = timers + 1 /\ callbacks' = callbacks)

\* C22: without shutdown and with the timer and the loop scheduled fairly, a
\* batch the loop has received is later passed to UpdatePath unless a later
\* batch for the same nexthop replaces it first; a batch received while no
\* flush is scheduled (at the start or after a trigger) arms a new timer;
\* and the map is never non-empty without an armed timer or a pending
\* trigger.
C22_EveryBatchFlushed ==
    /\ [](scheduledPathList # <<>> => (timers > 0 \/ callbacks > 0))
    /\ [][BatchArmsTimer]_vars
    /\ \A batch \in NhtBatches :
          Held(batch) ~> (Flushed(batch) \/ Overwritten(batch))

\* Three batches were received without a tick in between, the third one
\* after a trigger had been handled: it opened a window of its own with a
\* new timer, the timer fired, and the trigger arm passed exactly that batch
\* to UpdatePath.
C22_Witness ==
    /\ arm = "trigger"
    /\ ticks = 0
    /\ penalty = 3 * PenaltyStep
    /\ DOMAIN window = {<<"192.0.2.1">>}
    /\ window[<<"192.0.2.1">>].count = 1
    /\ updatePathArg = <<window[<<"192.0.2.1">>].latest>>
    /\ scheduledPathList = <<>>
    /\ ~isScheduled /\ timers = 0 /\ callbacks = 0

====
